---- MODULE Spec2Model ----
(***************************************************************************)
(* Disaster Response Coordination Platform: the Supabase-backed cache      *)
(* service (utils/cache.js), the cache-backed fetch handlers and the       *)
(* mutation handlers of the disaster and resource routes.                  *)
(*                                                                         *)
(* Every `await` of the JavaScript code is a scheduling point: a request   *)
(* is a process whose program counter sits at the awaited store or service *)
(* call, and requests interleave at those points.  Time is the millisecond *)
(* clock read by Date.now() / new Date().                                  *)
(***************************************************************************)
EXTENDS Integers, Sequences, FiniteSets, TLC

(***************************************************************************)
(* Bounds of the model.                                                    *)
(***************************************************************************)
MaxTicks == 1
MaxTrail == 3

(***************************************************************************)
(* Program constants.                                                      *)
(***************************************************************************)
defaultTTL == 3600
MsPerSecond == 1000
NullTTL == -1
ResourcesTTL == 600
SocialMediaTTL == 300
VerificationTTL == 86400
GeocodingTTL == 3600
OfficialUpdatesTTL == 1800

(***************************************************************************)
(* Values.                                                                 *)
(***************************************************************************)
Procs == {"r1", "r2"}

\* A field that a JavaScript object does not have.
Undefined == "undefined"

\* JavaScript null, as returned by CacheService.get on a miss.
Null == [null |-> TRUE]
\* JavaScript true and false, as returned by set, delete and clear.
JsTrue == [bool |-> TRUE]
JsFalse == [bool |-> FALSE]
\* A key without a row in a table.
NoRow == [absent |-> TRUE]
\* No set has been observed for a key (history only).
NoSet == [noset |-> TRUE]

Prefixes == {"direct", "resources", "social_media", "image_verification"}
Params == {"d1", "d2"}
DisasterIds == {"d1", "d2"}
ResourceIds == {"x1", "x2"}
RequestUsers == {"netrunnerX", "citizen1"}
Sockets == {"s1", "s2"}

HandlerKeys == {<<"resources", "d1">>, <<"social_media", "d1">>,
                <<"image_verification", "d1">>}
DirectKeys == {<<"direct", "d1">>, <<"direct", "d2">>}
\* part_004:263: the lat and lng of a reverse-geocoding request, as the
\* handler classifies them.
ValidCoordinates == {"40.7128,-74.0060"}
ReverseQueries == ValidCoordinates \cup {"missing", "not-a-number"}
GeoKeys == {<<"reverse_geocoding", q>> : q \in ValidCoordinates}

\* resources.js:127, 140: the lat/lng and the radius of a proximity query, as
\* the query string carries them; they are part of the cache key.  The two
\* centres are the positions of fixtures '1' and '4' (resources.js:15, 57).
Centres == {"40.7831,-73.9857", "40.7061,-73.9969"}
Radii == {"2.008", "10"}
ProximityParams(c, r) == "d1:" \o c \o ":" \o r
ProximityKeys == {<<"resources", ProximityParams(c, r)>> : c \in Centres, r \in Radii}

\* verification.js:274: the image URLs of a bulk verification; each has its
\* own cache key.
ImageUrls == {"http://example.com/a.jpg", "http://example.com/b.jpg"}
BulkKeys == {<<"image_verification", u>> : u \in ImageUrls}

\* part_004:197, 209, 232: the text and the location name of a geocode
\* request ("" stands for an absent field), and the keys of the two caches.
GeocodeTexts == {"", "flood in Manhattan"}
LocationNames == {"", "Manhattan"}
GeocodeKeys == {<<"location_extraction", "flood in Manhattan">>, <<"geocoding", "Manhattan">>}

\* officialUpdates.js:215-218: the query of an official-updates request ("" is
\* an absent parameter); only priority (and source, which the requests here
\* leave out) enters the cache key.
OfficialPriorities == {"", "high"}
OfficialSince == {"", "50"}
OfficialLimits == {"20", "1"}
OfficialParams(priority) == "d1::" \o priority
OfficialQueries ==
    [priority : OfficialPriorities, since : OfficialSince, limit : OfficialLimits]
OfficialKeys == {<<"official_updates", OfficialParams(pr)>> : pr \in OfficialPriorities}
CacheKeys ==
    DirectKeys \cup HandlerKeys \cup GeoKeys \cup ProximityKeys \cup BulkKeys \cup GeocodeKeys
        \cup OfficialKeys

\* JSON values a direct caller stores: an object, the number 0 (falsy) and
\* null (which the NOT NULL column rejects).
Zero == [source |-> "direct", body |-> "0"]
DirectValues == {[source |-> "direct", body |-> "a"], Zero, Null}

TTLArgs == {NullTTL, 0, 1}
Outcomes == {"ok", "error", "throw"}

VARIABLES clock, ticks, cache, lastSet, pc, cs, rq, disasters, resources, env, hist,
          mockResources, sockets, bulk

vars == <<clock, ticks, cache, lastSet, pc, cs, rq, disasters, resources, env, hist,
          mockResources, sockets, bulk>>

(***************************************************************************)
(* utils/cache.js                                                          *)
(***************************************************************************)

\* cache.js:99-104: the key is the prefix and the base64 of the serialized
\* parameters; both encodings are injective, so the pair stands for the key.
generateKey(prefix, params) == <<prefix, params>>

Row(v, e) == [value |-> v, expires_at |-> e]

\* cache.js:38: const ttl = ttlSeconds || this.defaultTTL  (null and 0 are falsy)
ttlOf(ttlSeconds) ==
    IF ttlSeconds = NullTTL \/ ttlSeconds = 0 THEN defaultTTL ELSE ttlSeconds

\* cache.js:39: new Date(Date.now() + ttl * 1000)
expiresAtOf(now, ttl) == now + ttl * MsPerSecond

isExpired_never(expires_at, now) == FALSE
\* cache.js:22: new Date(data.expires_at) < new Date()
isExpired(expires_at, now) == expires_at < now

getCompletion_falsy(outcome, data, now) ==
    IF outcome = "throw" THEN [kind |-> "return", val |-> Null]
    ELSE IF outcome = "error" \/ data = NoRow \/ data.value = Zero
         THEN [kind |-> "return", val |-> Null]
    ELSE IF isExpired(data.expires_at, now) THEN [kind |-> "evict", val |-> Null]
    ELSE [kind |-> "return", val |-> data.value]
getCompletion_nocatch(outcome, data, now) ==
    IF outcome = "throw" THEN [kind |-> "raise", val |-> Null]
    ELSE IF outcome = "error" \/ data = NoRow THEN [kind |-> "return", val |-> Null]
    ELSE IF isExpired(data.expires_at, now) THEN [kind |-> "evict", val |-> Null]
    ELSE [kind |-> "return", val |-> data.value]
\* cache.js:17-33: what get does once the select has settled.
getCompletion(outcome, data, now) ==
    IF outcome = "throw" THEN [kind |-> "return", val |-> Null]
    ELSE IF outcome = "error" \/ data = NoRow THEN [kind |-> "return", val |-> Null]
    ELSE IF isExpired(data.expires_at, now) THEN [kind |-> "evict", val |-> Null]
    ELSE [kind |-> "return", val |-> data.value]

\* cache.js:49-58 (and 68-77, 87-96): a store error is thrown inside the try
\* and, like a rejected await, lands in the catch, which returns false.
writeCompletion(outcome) ==
    IF outcome = "ok" THEN [kind |-> "return", val |-> JsTrue]
    ELSE [kind |-> "return", val |-> JsFalse]

\* part_001:66: value JSONB NOT NULL -- an upsert of null is a store error.
upsertOutcome(o, value) == IF o = "ok" /\ value = Null THEN "error" ELSE o

\* The state of one HTTP request: what the handler has done so far, the
\* response it sent (status 0: none yet) and how many it sent.
IdleReq == [handler |-> "none", id |-> "d1", rid |-> "x1", user |-> "citizen1",
            role |-> "contributor", header |-> "",
            valid |-> TRUE, lookup |-> "none", hit |-> FALSE, payload |-> Null,
            primaryCalls |-> 0, cacheWrites |-> 0, emitted |-> <<>>, delivered |-> <<>>,
            existing |-> NoRow, entry |-> Null, storeOutcome |-> "none",
            input |-> Null, output |-> Null,
            status |-> 0, body |-> Null, responses |-> 0]

\* The frame of one CacheService call.
IdleCall == [op |-> "none", key |-> <<"direct", "d1">>, value |-> Null,
             ttlSeconds |-> NullTTL, expiresAt |-> 0, callTime |-> 0,
             outcome |-> "ok", wout |-> "none", data |-> NoRow, now |-> 0, seen |-> NoSet,
             nested |-> FALSE, kind |-> "none", ret |-> Null, cont |-> "idle"]

\* cache.js:9: entry of get(key).
getFrame(k, cont) ==
    [IdleCall EXCEPT !.op = "get", !.key = k, !.callTime = clock, !.cont = cont]

\* cache.js:36-39: entry of set(key, value, ttlSeconds); expiresAt is computed
\* before the upsert is awaited.
setFrame(k, v, t, cont) ==
    [IdleCall EXCEPT !.op = "set", !.key = k, !.value = v, !.ttlSeconds = t,
                     !.callTime = clock,
                     !.expiresAt = expiresAtOf(clock, ttlOf(t)), !.cont = cont]

\* A CacheService call completes: a return hands the value to the awaiting
\* caller, a raise rejects the caller's await.
Complete(p, frame, c) ==
    /\ cs' = [cs EXCEPT ![p] = [frame EXCEPT !.kind = c.kind, !.ret = c.val]]
    /\ pc' = [pc EXCEPT ![p] = IF c.kind = "raise" /\ frame.cont # "done"
                                THEN "handler_catch" ELSE frame.cont]

\* cache.js:11-15: the select on the cache table settles.
get_select(p) ==
    /\ pc[p] = "get_select"
    /\ \E o \in Outcomes :
          cs' = [cs EXCEPT ![p].outcome = o,
                           ![p].data = IF o = "ok" THEN cache[cs[p].key] ELSE NoRow,
                           ![p].seen = lastSet[cs[p].key]]
    /\ pc' = [pc EXCEPT ![p] = "get_check"]
    /\ UNCHANGED <<clock, ticks, cache, lastSet, rq, disasters, resources, env, hist,
                   mockResources, sockets, bulk>>

\* cache.js:17-33: the continuation of get after the select.
get_check(p) ==
    /\ pc[p] = "get_check"
    /\ LET c == getCompletion(cs[p].outcome, cs[p].data, clock)
           f == [cs[p] EXCEPT !.now = clock]
       IN  IF c.kind = "evict"
           THEN /\ cs' = [cs EXCEPT ![p] = [f EXCEPT !.nested = TRUE]]
                /\ pc' = [pc EXCEPT ![p] = "delete_db"]
           ELSE Complete(p, f, c)
    /\ UNCHANGED <<clock, ticks, cache, lastSet, rq, disasters, resources, env, hist,
                   mockResources, sockets, bulk>>

\* cache.js:41-47, part_001:65: upsert on the primary key: the row of the key
\* is inserted or replaced, so the table holds one row per key.
upsert_ignoreDuplicates(table, k, row) ==
    IF table[k] # NoRow THEN table ELSE [table EXCEPT ![k] = row]
upsert(table, k, row) == [table EXCEPT ![k] = row]

\* cache.js:41-58: the upsert settles and set returns.
set_upsert(p) ==
    /\ pc[p] = "set_upsert"
    /\ \E o \in Outcomes :
          LET out == upsertOutcome(o, cs[p].value)
              k == cs[p].key
          IN  /\ IF out = "ok"
                 THEN /\ cache' = upsert(cache, k, Row(cs[p].value, cs[p].expiresAt))
                      /\ lastSet' = [lastSet EXCEPT ![k] =
                                        [value |-> cs[p].value,
                                         ttlSeconds |-> cs[p].ttlSeconds,
                                         t0 |-> cs[p].callTime]]
                 ELSE UNCHANGED <<cache, lastSet>>
              /\ Complete(p, [cs[p] EXCEPT !.wout = out], writeCompletion(out))
    /\ UNCHANGED <<clock, ticks, rq, disasters, resources, env, hist,
                   mockResources, sockets, bulk>>

\* cache.js:61-78: the delete settles; delete returns true/false, and a get
\* that was evicting an expired entry returns null (cache.js:24-25).
delete_db(p) ==
    /\ pc[p] = "delete_db"
    /\ \E o \in Outcomes :
          LET k == cs[p].key
              c == writeCompletion(o)
          IN  /\ IF o = "ok"
                 THEN /\ cache' = [cache EXCEPT ![k] = NoRow]
                      /\ lastSet' = [lastSet EXCEPT ![k] = NoSet]
                 ELSE UNCHANGED <<cache, lastSet>>
              /\ Complete(p, [cs[p] EXCEPT !.wout = o],
                          IF cs[p].nested THEN [kind |-> "return", val |-> Null] ELSE c)
    /\ UNCHANGED <<clock, ticks, rq, disasters, resources, env, hist,
                   mockResources, sockets, bulk>>

\* cache.js:80-97: delete ... where expires_at < now, now taken at the call.
clear_db(p) ==
    /\ pc[p] = "clear_db"
    /\ \E o \in Outcomes :
          LET gone == {k \in CacheKeys : cache[k] # NoRow
                                         /\ cache[k].expires_at < cs[p].callTime}
          IN  /\ IF o = "ok"
                 THEN /\ cache' = [k \in CacheKeys |-> IF k \in gone THEN NoRow ELSE cache[k]]
                      /\ lastSet' = [k \in CacheKeys |-> IF k \in gone THEN NoSet ELSE lastSet[k]]
                 ELSE UNCHANGED <<cache, lastSet>>
              /\ Complete(p, [cs[p] EXCEPT !.wout = o], writeCompletion(o))
    /\ UNCHANGED <<clock, ticks, rq, disasters, resources, env, hist,
                   mockResources, sockets, bulk>>

(***************************************************************************)
(* Direct callers of the cache service; a caller that holds a result takes  *)
(* its next call.                                                          *)
(***************************************************************************)
CallGet(p, keys) ==
    /\ pc[p] \in {"idle", "done"}
    /\ \E k \in keys : cs' = [cs EXCEPT ![p] = getFrame(k, "done")]
    /\ pc' = [pc EXCEPT ![p] = "get_select"]
    /\ rq' = [rq EXCEPT ![p] = IdleReq]
    /\ UNCHANGED <<clock, ticks, cache, lastSet, disasters, resources, env, hist,
                   mockResources, sockets, bulk>>

CallSet(p, keys, values, ttls) ==
    /\ pc[p] \in {"idle", "done"}
    /\ \E k \in keys, v \in values, t \in ttls :
          cs' = [cs EXCEPT ![p] = setFrame(k, v, t, "done")]
    /\ pc' = [pc EXCEPT ![p] = "set_upsert"]
    /\ rq' = [rq EXCEPT ![p] = IdleReq]
    /\ UNCHANGED <<clock, ticks, cache, lastSet, disasters, resources, env, hist,
                   mockResources, sockets, bulk>>

CallDelete(p, keys) ==
    /\ pc[p] \in {"idle", "done"}
    /\ \E k \in keys :
          cs' = [cs EXCEPT ![p] = [IdleCall EXCEPT !.op = "delete", !.key = k,
                                                   !.callTime = clock, !.cont = "done"]]
    /\ pc' = [pc EXCEPT ![p] = "delete_db"]
    /\ rq' = [rq EXCEPT ![p] = IdleReq]
    /\ UNCHANGED <<clock, ticks, cache, lastSet, disasters, resources, env, hist,
                   mockResources, sockets, bulk>>

CallClear(p) ==
    /\ pc[p] \in {"idle", "done"}
    /\ cs' = [cs EXCEPT ![p] = [IdleCall EXCEPT !.op = "clear", !.callTime = clock,
                                                !.cont = "done"]]
    /\ pc' = [pc EXCEPT ![p] = "clear_db"]
    /\ rq' = [rq EXCEPT ![p] = IdleReq]
    /\ UNCHANGED <<clock, ticks, cache, lastSet, disasters, resources, env, hist,
                   mockResources, sockets, bulk>>

(***************************************************************************)
(* Time.  The clock moves to the next millisecond, or to the expiry of  *)
(* a stored entry or the millisecond after it.                             *)
(***************************************************************************)
Instants ==
    {clock + 1} \cup
    UNION {{cache[k].expires_at, cache[k].expires_at + 1} :
              k \in {c \in CacheKeys : cache[c] # NoRow}}

Tick ==
    /\ ticks < MaxTicks
    /\ \E t \in Instants : t > clock /\ clock' = t
    /\ ticks' = ticks + 1
    /\ UNCHANGED <<cache, lastSet, pc, cs, rq, disasters, resources, env, hist,
                   mockResources, sockets, bulk>>


(***************************************************************************)
(* Cache-backed fetch handlers.                                            *)
(***************************************************************************)
\* The payloads the handlers build, by their provenance field.
Payload(source, id) == [source |-> source, body |-> id]

\* resources.js:203, part_006:184/228, verification.js:52-65: payloads built
\* from the mock fixtures.
Synthetic(v) ==
    v # Null /\ v.source \in {"mock_data", "mock_api", "mock_fallback", "mock_verification"}

\* if (!cached) ...: null and 0 are falsy.
Truthy(v) == v # Null /\ v # Zero

\* res.status(n).json(body): the response is sent; responses counts the
\* sends of one request.
Respond(f, status, body) ==
    [f EXCEPT !.status = status, !.body = body, !.responses = @ + 1]

\* part_007:55-57: socket.join(`disaster_${disasterId}`)
Room(id) == <<"disaster", id>>

\* The sockets an emit reaches: io.emit(...) goes to every connected socket,
\* io.to(room).emit(...) to the sockets that are in the room at that moment.
Recipients_broadcast(room) == {s \in Sockets : sockets[s].connected}
Recipients(room) ==
    IF room = "all" THEN {s \in Sockets : sockets[s].connected}
    ELSE {s \in Sockets : sockets[s].connected /\ room \in sockets[s].rooms}

\* io.to(room).emit(event, {action, ...}): the event is handed to the current
\* recipients and kept nowhere.
Emit(f, room, event, action) ==
    [f EXCEPT !.emitted = Append(@, [room |-> room, event |-> event, action |-> action]),
              !.delivered = Append(@, Recipients(room))]

AfterGet_ignoreCache(p) ==
    [rq[p] EXCEPT !.hit = FALSE,
                  !.lookup = IF Truthy(cs[p].ret) THEN "hit"
                             ELSE IF cs[p].outcome = "ok" THEN "miss" ELSE "fault"]
\* What a handler knows when its cache.get has returned.
AfterGet(p) ==
    [rq[p] EXCEPT !.hit = Truthy(cs[p].ret),
                  !.lookup = IF Truthy(cs[p].ret) THEN "hit"
                             ELSE IF cs[p].outcome = "ok" THEN "miss" ELSE "fault",
                  !.payload = IF Truthy(cs[p].ret) THEN cs[p].ret ELSE @]

CallCacheSet_noWrite(p, f, k, payload, ttl, cont) ==
    /\ rq' = [rq EXCEPT ![p] = [f EXCEPT !.payload = payload]]
    /\ cs' = cs
    /\ pc' = [pc EXCEPT ![p] = cont]
\* A handler calls cache.set(key, payload, ttl) and awaits it.
CallCacheSet(p, f, k, payload, ttl, cont) ==
    /\ rq' = [rq EXCEPT ![p] = [f EXCEPT !.payload = payload, !.cacheWrites = @ + 1]]
    /\ cs' = [cs EXCEPT ![p] = setFrame(k, payload, ttl, cont)]
    /\ pc' = [pc EXCEPT ![p] = "set_upsert"]

\* resources.js:124-141: GET /:id/resources up to the awaited cache.get.
resources_start(p) ==
    /\ pc[p] \in {"idle", "done"}
    /\ \E valid \in BOOLEAN :
          IF valid
          THEN /\ rq' = [rq EXCEPT ![p] = [IdleReq EXCEPT !.handler = "resources"]]
               /\ cs' = [cs EXCEPT ![p] = getFrame(generateKey("resources", "d1"),
                                                  "resources_after_get")]
               /\ pc' = [pc EXCEPT ![p] = "get_select"]
          ELSE /\ rq' = [rq EXCEPT ![p] =
                            Respond([IdleReq EXCEPT !.handler = "resources",
                                                    !.valid = FALSE], 400, Null)]
               /\ cs' = [cs EXCEPT ![p] = IdleCall]
               /\ pc' = [pc EXCEPT ![p] = "done"]
    /\ UNCHANGED <<clock, ticks, cache, lastSet, disasters, resources, env, hist,
                   mockResources, sockets, bulk>>

\* resources.js:216-240: the event and the response, on every path.
resources_respond(f) ==
    Respond(Emit(f, Room(f.id), "resources_updated", "none"), 200, f.payload)

\* resources.js:143, 212-240: a hit goes straight to the event and the
\* response; a miss goes to the store query.
resources_after_get(p) ==
    /\ pc[p] = "resources_after_get"
    /\ LET f == AfterGet(p)
       IN  IF f.hit
           THEN /\ rq' = [rq EXCEPT ![p] = resources_respond(f)]
                /\ pc' = [pc EXCEPT ![p] = "done"]
           ELSE /\ rq' = [rq EXCEPT ![p] = f]
                /\ pc' = [pc EXCEPT ![p] = "resources_query"]
    /\ UNCHANGED <<clock, ticks, cache, lastSet, cs, disasters, resources, env, hist,
                   mockResources, sockets, bulk>>

\* resources.js:144-211: the store query settles; its result, or the mock
\* fixture on an error or a throw, is passed to cache.set.
resources_query_result(p, o) ==
    LET f == [rq[p] EXCEPT !.primaryCalls = @ + 1]
        data == IF o = "ok" THEN Payload("supabase", f.id)
                ELSE Payload("mock_data", f.id)
    IN  CallCacheSet(p, f, generateKey("resources", f.id), data, ResourcesTTL,
                     "resources_after_set")

resources_query(p) ==
    /\ pc[p] = "resources_query"
    /\ \E o \in Outcomes : resources_query_result(p, o)
    /\ UNCHANGED <<clock, ticks, cache, lastSet, disasters, resources, env, hist,
                   mockResources, sockets, bulk>>

\* resources.js:211-240: after the awaited cache.set.
resources_after_set(p) ==
    /\ pc[p] = "resources_after_set"
    /\ rq' = [rq EXCEPT ![p] = resources_respond(rq[p])]
    /\ pc' = [pc EXCEPT ![p] = "done"]
    /\ UNCHANGED <<clock, ticks, cache, lastSet, cs, disasters, resources, env, hist,
                   mockResources, sockets, bulk>>

\* part_006:146-155: GET /:id/social-media up to the awaited cache.get.
social_start(p) ==
    /\ pc[p] \in {"idle", "done"}
    /\ rq' = [rq EXCEPT ![p] = [IdleReq EXCEPT !.handler = "social_media"]]
    /\ cs' = [cs EXCEPT ![p] = getFrame(generateKey("social_media", "d1"),
                                       "social_after_get")]
    /\ pc' = [pc EXCEPT ![p] = "get_select"]
    /\ UNCHANGED <<clock, ticks, cache, lastSet, disasters, resources, env, hist,
                   mockResources, sockets, bulk>>

\* part_006:236-256: the event and the response, on every path.
social_respond(f) ==
    Respond(Emit(f, Room(f.id), "social_media_updated", "none"), 200, f.payload)

\* part_006:157-188, 219-220: a hit goes to the event and the response; a miss
\* calls the Twitter API when a bearer token is configured, and otherwise
\* takes the mock feed and caches it.
social_after_get(p) ==
    /\ pc[p] = "social_after_get"
    /\ LET f == AfterGet(p)
       IN  IF f.hit
           THEN /\ rq' = [rq EXCEPT ![p] = social_respond(f)]
                /\ pc' = [pc EXCEPT ![p] = "done"]
                /\ cs' = cs
           ELSE IF env.twitter
           THEN /\ rq' = [rq EXCEPT ![p] = f]
                /\ pc' = [pc EXCEPT ![p] = "social_api"]
                /\ cs' = cs
           ELSE CallCacheSet(p, f, generateKey("social_media", f.id),
                             Payload("mock_api", f.id), SocialMediaTTL, "social_after_set")
    /\ UNCHANGED <<clock, ticks, cache, lastSet, disasters, resources, env, hist,
                   mockResources, sockets, bulk>>

\* part_006:161-177, 219-231: the Twitter request settles; a result is cached,
\* a rejected request is replaced by the mock feed, which is not cached.
social_api(p) ==
    /\ pc[p] = "social_api"
    /\ \E o \in {"ok", "throw"} :
          LET f == [rq[p] EXCEPT !.primaryCalls = @ + 1]
          IN  IF o = "ok"
              THEN CallCacheSet(p, f, generateKey("social_media", f.id),
                                Payload("twitter_api", f.id), SocialMediaTTL,
                                "social_after_set")
              ELSE /\ rq' = [rq EXCEPT ![p] =
                                social_respond([f EXCEPT !.payload =
                                                   Payload("mock_fallback", f.id)])]
                   /\ pc' = [pc EXCEPT ![p] = "done"]
                   /\ cs' = cs
    /\ UNCHANGED <<clock, ticks, cache, lastSet, disasters, resources, env, hist,
                   mockResources, sockets, bulk>>

\* part_006:220-256: after the awaited cache.set.
social_after_set(p) ==
    /\ pc[p] = "social_after_set"
    /\ rq' = [rq EXCEPT ![p] = social_respond(rq[p])]
    /\ pc' = [pc EXCEPT ![p] = "done"]
    /\ UNCHANGED <<clock, ticks, cache, lastSet, cs, disasters, resources, env, hist,
                   mockResources, sockets, bulk>>

\* verification.js:183-207: POST /:id/verify-image: a missing or malformed
\* image_url is answered 400, otherwise the cache is consulted.
verify_start(p) ==
    /\ pc[p] \in {"idle", "done"}
    /\ \E valid \in BOOLEAN :
          IF valid
          THEN /\ rq' = [rq EXCEPT ![p] = [IdleReq EXCEPT !.handler = "verify_image"]]
               /\ cs' = [cs EXCEPT ![p] = getFrame(generateKey("image_verification", "d1"),
                                                  "verify_after_get")]
               /\ pc' = [pc EXCEPT ![p] = "get_select"]
          ELSE /\ rq' = [rq EXCEPT ![p] =
                            Respond([IdleReq EXCEPT !.handler = "verify_image",
                                                    !.valid = FALSE], 400, Null)]
               /\ cs' = [cs EXCEPT ![p] = IdleCall]
               /\ pc' = [pc EXCEPT ![p] = "done"]
    /\ UNCHANGED <<clock, ticks, cache, lastSet, disasters, resources, env, hist,
                   mockResources, sockets, bulk>>

\* verification.js:212-215: whatever verifyImageWithGemini returned is cached
\* for 24 hours.
verify_cache(p, f, source) ==
    CallCacheSet(p, f, generateKey("image_verification", f.id),
                 Payload(source, f.id), VerificationTTL, "verify_after_set")

\* verification.js:209-228, 68-73: a hit is answered at once; on a miss
\* verifyImageWithGemini returns the mock result when no model is configured,
\* and otherwise fetches the image.
verify_after_get(p) ==
    /\ pc[p] = "verify_after_get"
    /\ LET f == AfterGet(p)
       IN  IF f.hit
           THEN /\ rq' = [rq EXCEPT ![p] = Respond(f, 200, f.payload)]
                /\ pc' = [pc EXCEPT ![p] = "done"]
                /\ cs' = cs
           ELSE IF env.gemini
           THEN /\ rq' = [rq EXCEPT ![p] = f]
                /\ pc' = [pc EXCEPT ![p] = "verify_fetch"]
                /\ cs' = cs
           ELSE verify_cache(p, f, "mock_verification")
    /\ UNCHANGED <<clock, ticks, cache, lastSet, disasters, resources, env, hist,
                   mockResources, sockets, bulk>>

\* verification.js:78-96, 119-123: the image download settles; a failure is
\* rethrown and caught by the function's catch, which returns the mock result.
verify_fetch(p) ==
    /\ pc[p] = "verify_fetch"
    /\ \E o \in {"ok", "throw"} :
          IF o = "ok"
          THEN /\ pc' = [pc EXCEPT ![p] = "verify_model"]
               /\ UNCHANGED <<rq, cs>>
          ELSE verify_cache(p, rq[p], "mock_verification")
    /\ UNCHANGED <<clock, ticks, cache, lastSet, disasters, resources, env, hist,
                   mockResources, sockets, bulk>>

\* verification.js:109-123: the model call settles.
verify_model(p) ==
    /\ pc[p] = "verify_model"
    /\ \E o \in {"ok", "throw"} :
          LET f == [rq[p] EXCEPT !.primaryCalls = @ + 1]
          IN  verify_cache(p, f, IF o = "ok" THEN "gemini_vision" ELSE "mock_verification")
    /\ UNCHANGED <<clock, ticks, cache, lastSet, disasters, resources, env, hist,
                   mockResources, sockets, bulk>>

\* verification.js:215-228: after the awaited cache.set.
verify_after_set(p) ==
    /\ pc[p] = "verify_after_set"
    /\ rq' = [rq EXCEPT ![p] = Respond(rq[p], 200, rq[p].payload)]
    /\ pc' = [pc EXCEPT ![p] = "done"]
    /\ UNCHANGED <<clock, ticks, cache, lastSet, cs, disasters, resources, env, hist,
                   mockResources, sockets, bulk>>


(***************************************************************************)
(* Mutation handlers of the disaster and resource routes.                  *)
(***************************************************************************)
\* part_002:2-23: the known users and their roles.
mockUsers ==
    [u \in {"netrunnerX", "reliefAdmin", "citizen1", "volunteer1"} |->
        IF u \in {"netrunnerX", "reliefAdmin"} THEN "admin" ELSE "contributor"]

\* The x-user-id header of a request; "" stands for an absent (or empty)
\* header.  "constructor" is one of the names every JavaScript object inherits
\* from Object.prototype, "stranger" a name that is no property at all.
NoHeader == ""
PrototypeKeys == {"constructor"}
Headers == {NoHeader, "netrunnerX", "citizen1", "constructor", "stranger"}


\* part_002:30: mockUsers[userId] on the object literal: an own property gives
\* the user record, an inherited property (Object.prototype.constructor, ...)
\* gives a truthy value without id or role, anything else gives undefined.
lookupUser(userId) ==
    IF userId \in DOMAIN mockUsers
    THEN [found |-> TRUE, id |-> userId, role |-> mockUsers[userId]]
    ELSE IF userId \in PrototypeKeys
    THEN [found |-> TRUE, id |-> Undefined, role |-> Undefined]
    ELSE [found |-> FALSE, id |-> Undefined, role |-> Undefined]

\* part_002:25-41: authenticateUser; found = FALSE is the 401 answer.
authenticateUser(header) ==
    lookupUser(IF header = NoHeader THEN "citizen1" ELSE header)

\* part_002:43-62: requireRole(roles).
requireRole_any(roles, role) == TRUE
requireRole(roles, role) == role \in roles

\* The request as the handler receives it from the middleware.
Authenticated(handler, header) ==
    LET a == authenticateUser(header)
    IN  [IdleReq EXCEPT !.handler = handler, !.header = header,
                        !.user = a.id, !.role = a.role]

\* An audit trail entry ({action, user_id, timestamp}).
AuditEntry(action, user, now) == [action |-> action, user_id |-> user, timestamp |-> now]

\* part_001:201-211: the sample disaster, owned by netrunnerX.
SeedDisaster == [owner_id |-> "netrunnerX",
                 audit_trail |-> <<AuditEntry("create", "netrunnerX", 0)>>]
\* part_001:224-235: a sample resource of the sample disaster.
SeedResource == [disaster_id |-> "d1"]

\* Identifiers the store has not handed out yet (uuid_generate_v4 never
\* repeats one).
FreshDisasterIds == DisasterIds \ hist.used
FreshResourceIds == {x \in ResourceIds : resources[x] = NoRow}

\* The payload of a mutation response: the stored row, or a mock object with
\* the message 'Created with mock data ...'.
Stored(id) == [source |-> "supabase", body |-> id]
Mock(id) == [source |-> "mock_data", body |-> id]

\* The outer catch of a handler: res.status(500).json(...)
handler_catch(p) ==
    /\ pc[p] = "handler_catch"
    /\ rq' = [rq EXCEPT ![p] = Respond(@, 500, Null)]
    /\ pc' = [pc EXCEPT ![p] = "done"]
    /\ UNCHANGED <<clock, ticks, cache, lastSet, cs, disasters, resources, env, hist,
                   mockResources, sockets, bulk>>

\* part_003:136-163: POST /disasters: validation, then the new row with its
\* one-entry audit trail.
disaster_post_start(p, headers) ==
    /\ pc[p] \in {"idle", "done"}
    /\ \E h \in headers, valid \in BOOLEAN :
          LET a == Authenticated("disaster_post", h)
              f == [a EXCEPT !.valid = valid]
          IN  IF ~authenticateUser(h).found
              THEN /\ rq' = [rq EXCEPT ![p] = Respond(a, 401, Null)]
                   /\ pc' = [pc EXCEPT ![p] = "done"]
              ELSE IF valid
              THEN /\ rq' = [rq EXCEPT ![p] =
                                [f EXCEPT !.entry = AuditEntry("create", f.user, clock)]]
                   /\ pc' = [pc EXCEPT ![p] = "disaster_insert"]
              ELSE /\ rq' = [rq EXCEPT ![p] = Respond(f, 400, Null)]
                   /\ pc' = [pc EXCEPT ![p] = "done"]
    /\ cs' = [cs EXCEPT ![p] = IdleCall]
    /\ UNCHANGED <<clock, ticks, cache, lastSet, disasters, resources, env, hist,
                   mockResources, sockets, bulk>>

newDisaster_noTrail(f) == [owner_id |-> f.user, audit_trail |-> <<>>]
\* part_003:147-158: the row to insert: the caller as owner and a one-entry
\* audit trail.
newDisaster(f) == [owner_id |-> f.user, audit_trail |-> <<f.entry>>]

\* The disaster in a create response: the inserted row as the store returns
\* it (part_003:204), or the mock object spread from newDisaster (175-180).
DisasterBody(source, id, row) ==
    [source |-> source, body |-> id, owner_id |-> row.owner_id,
     audit_trail |-> row.audit_trail]

\* part_001:24: owner_id VARCHAR(100) NOT NULL -- a row whose owner_id is
\* undefined (dropped by the JSON serialization) is refused by the store.
insertOutcome(o, row) == IF o = "ok" /\ row.owner_id = Undefined THEN "error" ELSE o

disaster_post_fallback_noReturn(f) ==
    Respond(Respond(Emit(f, "all", "disaster_updated", "create"), 201,
                    DisasterBody("mock_data", "mock", newDisaster(f))),
            500, Null)
\* part_003:171-193: the insert returned an error: a mock disaster is
\* broadcast and returned with 201.
disaster_post_fallback(f) ==
    Respond(Emit(f, "all", "disaster_updated", "create"), 201,
            DisasterBody("mock_data", "mock", newDisaster(f)))

\* part_003:165-212: the insert settles.
disaster_insert(p) ==
    /\ pc[p] = "disaster_insert"
    /\ \E o \in Outcomes :
          LET out == insertOutcome(o, newDisaster(rq[p]))
              f == [rq[p] EXCEPT !.storeOutcome = out]
          IN  CASE out = "ok" ->
                     \E d \in FreshDisasterIds :
                        /\ disasters' = [disasters EXCEPT ![d] = newDisaster(f)]
                        /\ rq' = [rq EXCEPT ![p] =
                                     Respond(Emit([f EXCEPT !.id = d], "all",
                                                  "disaster_updated", "create"),
                                             201, DisasterBody("supabase", d,
                                                               disasters'[d]))]
                        /\ hist' = [hist EXCEPT !.used = @ \cup {d}]
                        /\ pc' = [pc EXCEPT ![p] = "done"]
                [] out = "error" ->
                     /\ rq' = [rq EXCEPT ![p] = disaster_post_fallback(f)]
                     /\ pc' = [pc EXCEPT ![p] = "done"]
                     /\ UNCHANGED <<disasters, hist>>
                [] out = "throw" ->
                     /\ rq' = [rq EXCEPT ![p] = f]
                     /\ pc' = [pc EXCEPT ![p] = "handler_catch"]
                     /\ UNCHANGED <<disasters, hist>>
    /\ UNCHANGED <<clock, ticks, cache, lastSet, cs, resources, env,
                   mockResources, sockets, bulk>>

\* part_003:216-219: PUT /disasters/:id.
disaster_put_start(p, headers) ==
    /\ pc[p] \in {"idle", "done"}
    /\ \E h \in headers, d \in DisasterIds :
          LET f == [Authenticated("disaster_put", h) EXCEPT !.id = d]
          IN  IF ~authenticateUser(h).found
              THEN /\ rq' = [rq EXCEPT ![p] = Respond(f, 401, Null)]
                   /\ pc' = [pc EXCEPT ![p] = "done"]
              ELSE /\ rq' = [rq EXCEPT ![p] = f]
                   /\ pc' = [pc EXCEPT ![p] = "disaster_put_fetch"]
    /\ cs' = [cs EXCEPT ![p] = IdleCall]
    /\ UNCHANGED <<clock, ticks, cache, lastSet, disasters, resources, env, hist,
                   mockResources, sockets, bulk>>

mayUpdate_any(existing, user, role) == TRUE
\* part_003:236: existing.owner_id !== req.user.id && req.user.role !== 'admin'
\* is the refusal.
mayUpdate(existing, user, role) == existing.owner_id = user \/ role = "admin"

\* part_003:260: updateData.audit_trail = [...(existing.audit_trail || []), newAuditEntry]
newTrail(existing, entry) == Append(existing.audit_trail, entry)

\* part_003:221-260: the lookup of owner_id and audit_trail settles; the
\* permission is checked and the new audit trail is built from the row read.
disaster_put_fetch(p) ==
    /\ pc[p] = "disaster_put_fetch"
    /\ \E o \in Outcomes :
          LET f == [rq[p] EXCEPT !.storeOutcome = o]
              row == disasters[f.id]
          IN  CASE o = "throw" ->
                     /\ rq' = [rq EXCEPT ![p] = f]
                     /\ pc' = [pc EXCEPT ![p] = "handler_catch"]
                [] o = "error" \/ (o = "ok" /\ row = NoRow) ->
                     /\ rq' = [rq EXCEPT ![p] = Respond(f, 404, Null)]
                     /\ pc' = [pc EXCEPT ![p] = "done"]
                [] o = "ok" /\ row # NoRow /\ ~mayUpdate(row, f.user, f.role) ->
                     /\ rq' = [rq EXCEPT ![p] = Respond([f EXCEPT !.existing = row], 403, Null)]
                     /\ pc' = [pc EXCEPT ![p] = "done"]
                [] o = "ok" /\ row # NoRow /\ mayUpdate(row, f.user, f.role) ->
                     /\ Len(row.audit_trail) < MaxTrail
                     /\ rq' = [rq EXCEPT ![p] =
                                  [f EXCEPT !.existing = row,
                                            !.entry = AuditEntry("update", f.user, clock)]]
                     /\ pc' = [pc EXCEPT ![p] = "disaster_put_update"]
    /\ UNCHANGED <<clock, ticks, cache, lastSet, cs, disasters, resources, env, hist,
                   mockResources, sockets, bulk>>

\* part_003:262-294: the update settles.
disaster_put_update(p) ==
    /\ pc[p] = "disaster_put_update"
    /\ \E o \in Outcomes :
          LET f == [rq[p] EXCEPT !.storeOutcome = o]
              row == disasters[f.id]
          IN  CASE o = "throw" ->
                     /\ rq' = [rq EXCEPT ![p] = f]
                     /\ pc' = [pc EXCEPT ![p] = "handler_catch"]
                     /\ UNCHANGED <<disasters, hist>>
                [] o = "error" \/ (o = "ok" /\ row = NoRow) ->
                     /\ rq' = [rq EXCEPT ![p] = Respond(f, 500, Null)]
                     /\ pc' = [pc EXCEPT ![p] = "done"]
                     /\ UNCHANGED <<disasters, hist>>
                [] o = "ok" /\ row # NoRow ->
                     /\ disasters' = [disasters EXCEPT ![f.id].audit_trail =
                                         newTrail(f.existing, f.entry)]
                     /\ hist' = [hist EXCEPT !.updates[f.id] = @ + 1]
                     /\ rq' = [rq EXCEPT ![p] =
                                  Respond(Emit(f, "all", "disaster_updated", "update"),
                                          200, Stored(f.id))]
                     /\ pc' = [pc EXCEPT ![p] = "done"]
    /\ UNCHANGED <<clock, ticks, cache, lastSet, cs, resources, env,
                   mockResources, sockets, bulk>>

\* part_003:298, part_002:43-62: DELETE /disasters/:id behind requireRole(['admin']).
disaster_delete_start(p, headers) ==
    /\ pc[p] \in {"idle", "done"}
    /\ \E h \in headers, d \in DisasterIds :
          LET f == [Authenticated("disaster_delete", h) EXCEPT !.id = d]
          IN  IF ~authenticateUser(h).found
              THEN /\ rq' = [rq EXCEPT ![p] = Respond(f, 401, Null)]
                   /\ pc' = [pc EXCEPT ![p] = "done"]
              ELSE IF requireRole({"admin"}, f.role)
              THEN /\ rq' = [rq EXCEPT ![p] = f]
                   /\ pc' = [pc EXCEPT ![p] = "disaster_delete_db"]
              ELSE /\ rq' = [rq EXCEPT ![p] = Respond(f, 403, Null)]
                   /\ pc' = [pc EXCEPT ![p] = "done"]
    /\ cs' = [cs EXCEPT ![p] = IdleCall]
    /\ UNCHANGED <<clock, ticks, cache, lastSet, disasters, resources, env, hist,
                   mockResources, sockets, bulk>>

\* part_003:302-337: the delete settles; the resources of the disaster go
\* with it (part_001:33, ON DELETE CASCADE).
disaster_delete_db(p) ==
    /\ pc[p] = "disaster_delete_db"
    /\ \E o \in Outcomes :
          LET f == [rq[p] EXCEPT !.storeOutcome = o]
              row == disasters[f.id]
          IN  CASE o = "throw" ->
                     /\ rq' = [rq EXCEPT ![p] = f]
                     /\ pc' = [pc EXCEPT ![p] = "handler_catch"]
                     /\ UNCHANGED <<disasters, resources>>
                [] o = "error" \/ (o = "ok" /\ row = NoRow) ->
                     /\ rq' = [rq EXCEPT ![p] = Respond(f, 404, Null)]
                     /\ pc' = [pc EXCEPT ![p] = "done"]
                     /\ UNCHANGED <<disasters, resources>>
                [] o = "ok" /\ row # NoRow ->
                     /\ disasters' = [disasters EXCEPT ![f.id] = NoRow]
                     /\ resources' = [x \in ResourceIds |->
                                         IF resources[x] # NoRow /\ resources[x].disaster_id = f.id
                                         THEN NoRow ELSE resources[x]]
                     /\ rq' = [rq EXCEPT ![p] =
                                  Respond(Emit(f, "all", "disaster_updated", "delete"),
                                          200, Stored(f.id))]
                     /\ pc' = [pc EXCEPT ![p] = "done"]
    /\ UNCHANGED <<clock, ticks, cache, lastSet, cs, env, hist,
                   mockResources, sockets, bulk>>

\* resources.js:252-280: POST /:id/resources: validation, then the new row.
resource_post_start(p) ==
    /\ pc[p] \in {"idle", "done"}
    /\ \E u \in RequestUsers, d \in DisasterIds, valid \in BOOLEAN :
          LET f == [Authenticated("resource_post", u) EXCEPT !.id = d, !.valid = valid]
          IN  IF valid
              THEN /\ rq' = [rq EXCEPT ![p] = f]
                   /\ pc' = [pc EXCEPT ![p] = "resource_insert"]
              ELSE /\ rq' = [rq EXCEPT ![p] = Respond(f, 400, Null)]
                   /\ pc' = [pc EXCEPT ![p] = "done"]
    /\ cs' = [cs EXCEPT ![p] = IdleCall]
    /\ UNCHANGED <<clock, ticks, cache, lastSet, disasters, resources, env, hist,
                   mockResources, sockets, bulk>>

resource_post_fallback_500(f) == Respond(f, 500, Null)
\* resources.js:304-320: the inner catch answers 201 with a mock resource and
\* emits nothing.
resource_post_fallback(f) == Respond(f, 201, Mock("mock"))

\* resources.js:282-320: the insert settles; an insert for a disaster that
\* does not exist violates the foreign key (part_001:33) and is an error.
resource_insert(p) ==
    /\ pc[p] = "resource_insert"
    /\ \E o \in Outcomes :
          LET fk == IF o = "ok" /\ disasters[rq[p].id] = NoRow THEN "error" ELSE o
              f == [rq[p] EXCEPT !.storeOutcome = fk]
          IN  IF fk = "ok"
              THEN \E x \in FreshResourceIds :
                      /\ resources' = [resources EXCEPT ![x] = [disaster_id |-> f.id]]
                      /\ rq' = [rq EXCEPT ![p] =
                                   Respond(Emit([f EXCEPT !.rid = x], Room(f.id),
                                                "resources_updated", "create"),
                                           201, Stored(x))]
              ELSE /\ rq' = [rq EXCEPT ![p] = resource_post_fallback(f)]
                   /\ UNCHANGED resources
    /\ pc' = [pc EXCEPT ![p] = "done"]
    /\ UNCHANGED <<clock, ticks, cache, lastSet, cs, disasters, env, hist,
                   mockResources, sockets, bulk>>

\* resources.js:332-335: PUT /:id/resources/:resourceId.
resource_put_start(p) ==
    /\ pc[p] \in {"idle", "done"}
    /\ \E u \in RequestUsers, d \in DisasterIds, x \in ResourceIds :
          rq' = [rq EXCEPT ![p] = [Authenticated("resource_put", u) EXCEPT
                                      !.id = d, !.rid = x]]
    /\ pc' = [pc EXCEPT ![p] = "resource_update"]
    /\ cs' = [cs EXCEPT ![p] = IdleCall]
    /\ UNCHANGED <<clock, ticks, cache, lastSet, disasters, resources, env, hist,
                   mockResources, sockets, bulk>>

\* resources.js:337-369: the update settles; no matching row is answered 404
\* like an error.
resource_update(p) ==
    /\ pc[p] = "resource_update"
    /\ \E o \in Outcomes :
          LET f == [rq[p] EXCEPT !.storeOutcome = o]
              found == resources[f.rid] # NoRow /\ resources[f.rid].disaster_id = f.id
          IN  CASE o = "throw" ->
                     /\ rq' = [rq EXCEPT ![p] = f]
                     /\ pc' = [pc EXCEPT ![p] = "handler_catch"]
                [] o = "error" \/ (o = "ok" /\ ~found) ->
                     /\ rq' = [rq EXCEPT ![p] = Respond(f, 404, Null)]
                     /\ pc' = [pc EXCEPT ![p] = "done"]
                [] o = "ok" /\ found ->
                     /\ rq' = [rq EXCEPT ![p] =
                                  Respond(Emit(f, Room(f.id), "resources_updated", "update"),
                                          200, Stored(f.rid))]
                     /\ pc' = [pc EXCEPT ![p] = "done"]
    /\ UNCHANGED <<clock, ticks, cache, lastSet, cs, disasters, resources, env, hist,
                   mockResources, sockets, bulk>>

\* resources.js:9-94: the mock resources of disaster '1' (fixture '5' belongs
\* to disaster '2'); distance_km is the field that filterResourcesByDistance
\* writes on them (resources.js:117), absent at load.
FixtureIds == {"1", "2", "3", "4", "6"}

\* verification.js:282-290: the summary of a bulk verification.
summaryOf_noFake(results) ==
    [total_verified |-> Len(results),
     authentic |-> Cardinality({i \in 1..Len(results) : results[i].status = "authentic"}),
     suspicious |-> Cardinality({i \in 1..Len(results) : results[i].status = "suspicious"}),
     fake |-> 0]
summaryOf(results) ==
    [total_verified |-> Len(results),
     authentic |-> Cardinality({i \in 1..Len(results) : results[i].status = "authentic"}),
     suspicious |-> Cardinality({i \in 1..Len(results) : results[i].status = "suspicious"}),
     fake |-> Cardinality({i \in 1..Len(results) : results[i].status = "fake"})]

\* The bulk verification request: its body, whether its handler is waiting
\* on Promise.all, and its response (status 0: none yet).
IdleBulk == [state |-> "idle", input |-> [array |-> FALSE, image_urls |-> <<>>],
             status |-> 0, verifications |-> <<>>, summary |-> summaryOf(<<>>)]
NoDistance == -1

InitBase ==
    /\ clock = 0
    /\ ticks = 0
    /\ cache = [k \in CacheKeys |-> NoRow]
    /\ lastSet = [k \in CacheKeys |-> NoSet]
    /\ pc = [p \in Procs |-> "idle"]
    /\ cs = [p \in Procs |-> IdleCall]
    /\ rq = [p \in Procs |-> IdleReq]
    /\ disasters = [d \in DisasterIds |-> IF d = "d1" THEN SeedDisaster ELSE NoRow]
    /\ resources = [x \in ResourceIds |-> IF x = "x1" THEN SeedResource ELSE NoRow]
    /\ hist = [updates |-> [d \in DisasterIds |-> 0], used |-> {"d1"}]
    /\ mockResources = [x \in FixtureIds |-> NoDistance]
    /\ sockets = [s \in Sockets |-> [connected |-> FALSE, rooms |-> {}]]
    /\ bulk = IdleBulk

\* Without TWITTER_BEARER_TOKEN and GEMINI_API_KEY (part_000:13-20).
Init == InitBase /\ env = [twitter |-> FALSE, gemini |-> FALSE, google |-> FALSE,
                           mapbox |-> FALSE, net |-> "up"]

\* The deployment may or may not configure the two API keys.
InitFetch == InitBase /\ env \in [twitter : BOOLEAN, gemini : BOOLEAN, google : {FALSE},
                                  mapbox : {FALSE}, net : {"up"}]

\* The geocoding routes: GOOGLE_MAPS_API_KEY may or may not be configured
\* (part_000:16), and the network to the geocoders is up at the start.
InitGeo == InitBase /\ env \in [twitter : {FALSE}, gemini : {FALSE}, google : BOOLEAN,
                                mapbox : {FALSE}, net : {"up"}]

\* The cache service on its own is driven by one sequential caller.
CacheCallers == {"r1"}

NextCache ==
    \/ Tick
    \/ \E p \in CacheCallers : CallGet(p, DirectKeys)
    \/ \E p \in CacheCallers : CallSet(p, DirectKeys, DirectValues, TTLArgs)
    \/ \E p \in CacheCallers : CallDelete(p, DirectKeys)
    \/ \E p \in CacheCallers : CallClear(p)
    \/ \E p \in CacheCallers : get_select(p)
    \/ \E p \in CacheCallers : get_check(p)
    \/ \E p \in CacheCallers : set_upsert(p)
    \/ \E p \in CacheCallers : delete_db(p)
    \/ \E p \in CacheCallers : clear_db(p)

SpecCache == Init /\ [][NextCache]_vars

\* Two callers use one key of the cache service at the same time, one
\* reading and one writing; every await of one may be followed by steps of
\* the other.
RaceKey == <<"direct", "d1">>
RaceValue == [source |-> "direct", body |-> "a"]

NextRace ==
    \/ Tick
    \/ CallGet("r1", {RaceKey})
    \/ CallSet("r2", {RaceKey}, {RaceValue}, {1, NullTTL})
    \/ \E p \in Procs : get_select(p)
    \/ \E p \in Procs : get_check(p)
    \/ \E p \in Procs : set_upsert(p)
    \/ \E p \in Procs : delete_db(p)

SpecRace == Init /\ [][NextRace]_vars

FetchCallers == {"r1"}

NextFetch ==
    \/ Tick
    \/ \E p \in FetchCallers : resources_start(p)
    \/ \E p \in FetchCallers : resources_after_get(p)
    \/ \E p \in FetchCallers : resources_query(p)
    \/ \E p \in FetchCallers : resources_after_set(p)
    \/ \E p \in FetchCallers : social_start(p)
    \/ \E p \in FetchCallers : social_after_get(p)
    \/ \E p \in FetchCallers : social_api(p)
    \/ \E p \in FetchCallers : social_after_set(p)
    \/ \E p \in FetchCallers : verify_start(p)
    \/ \E p \in FetchCallers : verify_after_get(p)
    \/ \E p \in FetchCallers : verify_fetch(p)
    \/ \E p \in FetchCallers : verify_model(p)
    \/ \E p \in FetchCallers : verify_after_set(p)
    \/ \E p \in FetchCallers : CallDelete(p, HandlerKeys)
    \/ \E p \in FetchCallers : CallClear(p)
    \/ \E p \in FetchCallers : get_select(p)
    \/ \E p \in FetchCallers : get_check(p)
    \/ \E p \in FetchCallers : set_upsert(p)
    \/ \E p \in FetchCallers : delete_db(p)
    \/ \E p \in FetchCallers : clear_db(p)

SpecFetch == InitFetch /\ [][NextFetch]_vars

(***************************************************************************)
(* resources.js:96-240: GET /:id/resources with coordinates.  Distances    *)
(* are in metres; distance_km has two decimals, i.e. is a multiple of 10.  *)
(***************************************************************************)
\* resources.js:9-94: the order of the fixtures in the array.
FixtureOrder == <<"1", "2", "3", "4", "6">>

\* resources.js:97-106: the Haversine distance between a centre and the
\* coordinates of a fixture (resources.js:15, 29, 43, 57, 85), to the metre.
calculateDistance(c, x) ==
    IF c = "40.7831,-73.9857"
    THEN CASE x = "1" -> 0 [] x = "2" -> 682 [] x = "3" -> 5263
           [] x = "4" -> 8614 [] x = "6" -> 2006
    ELSE CASE x = "1" -> 8614 [] x = "2" -> 8715 [] x = "3" -> 3360
           [] x = "4" -> 0 [] x = "6" -> 7117

\* resources.js:131: parseFloat(radius), in metres.
parseFloat(r) == CASE r = "2.008" -> 2008 [] r = "10" -> 10000

\* resources.js:117: Math.round(distance * 100) / 100
roundKm(m) == ((m + 5) \div 10) * 10

\* resources.js:127: limit = 50
limit == 50

\* Array.prototype.sort with the comparator a.distance_km - b.distance_km:
\* stable, so equal distances keep the order of the array.
RECURSIVE sort(_, _)
sort(s, key) ==
    IF s = <<>> THEN <<>>
    ELSE LET rest == sort(SubSeq(s, 1, Len(s) - 1), key)
             x == s[Len(s)]
             n == Cardinality({j \in 1..Len(rest) : key[rest[j]] <= key[x]})
         IN  SubSeq(rest, 1, n) \o <<x>> \o SubSeq(rest, n + 1, Len(rest))

\* resources.js:117: the filter callback writes distance_km on every
\* resource it is called with, inside the radius or not.
distancesAfter(c) == [x \in FixtureIds |-> roundKm(calculateDistance(c, x))]

\* resources.js:109-121: the resources within the radius, by distance_km.
filterResourcesByDistance(rs, c, radiusKm) ==
    sort(SelectSeq(rs, LAMBDA x : calculateDistance(c, x) <= radiusKm), distancesAfter(c))

\* resources.js:203: filteredResources.slice(0, limit)
slice(s, n) == SubSeq(s, 1, IF Len(s) < n THEN Len(s) ELSE n)

\* resources.js:201-205: resourceData = {resources, source: 'mock_data', ...}
resourceData(source, items) == [source |-> source, resources |-> items]

\* JSON.stringify of the resource objects: the fields they have at that
\* moment.
Serialized(ids) ==
    [i \in 1..Len(ids) |-> [id |-> ids[i], distance_km |-> mockResources'[ids[i]]]]

\* resources.js:124-141: the request of an authenticated user with valid
\* coordinates, up to the awaited cache.get.
proximity_start(p) ==
    /\ pc[p] \in {"idle", "done"}
    /\ \E c \in Centres, r \in Radii :
          /\ rq' = [rq EXCEPT ![p] = [Authenticated("proximity", NoHeader) EXCEPT
                                         !.input = [centre |-> c, radius |-> r]]]
          /\ cs' = [cs EXCEPT ![p] = getFrame(generateKey("resources", ProximityParams(c, r)),
                                             "proximity_after_get")]
    /\ pc' = [pc EXCEPT ![p] = "get_select"]
    /\ UNCHANGED <<clock, ticks, cache, lastSet, disasters, resources, env, hist,
                   mockResources, sockets, bulk>>

\* resources.js:143-211: a hit goes to the event and the response.  On a miss
\* the try block fails before any await (the builder returned by limit() has
\* no rpc method in @supabase/supabase-js 2.x, package.json:27), the catch
\* filters the fixtures and the result is handed to cache.set, which
\* serializes it.
proximity_after_get(p) ==
    /\ pc[p] = "proximity_after_get"
    /\ LET f == AfterGet(p)
           c == f.input.centre
           found == slice(filterResourcesByDistance(FixtureOrder, c, parseFloat(f.input.radius)),
                          limit)
       IN  IF f.hit
           THEN /\ rq' = [rq EXCEPT ![p] = resources_respond(f)]
                /\ pc' = [pc EXCEPT ![p] = "done"]
                /\ UNCHANGED <<cs, mockResources>>
           ELSE /\ mockResources' = distancesAfter(c)
                /\ CallCacheSet(p, [f EXCEPT !.output = found],
                                generateKey("resources", ProximityParams(c, f.input.radius)),
                                resourceData("mock_data", Serialized(found)), ResourcesTTL,
                                "proximity_after_set")
    /\ UNCHANGED <<clock, ticks, cache, lastSet, disasters, resources, env, hist, sockets, bulk>>

\* resources.js:211-240: after the awaited cache.set, res.json serializes the
\* resource objects that the filter returned.
proximity_after_set(p) ==
    /\ pc[p] = "proximity_after_set"
    /\ mockResources' = mockResources
    /\ rq' = [rq EXCEPT ![p] =
                 resources_respond([rq[p] EXCEPT
                     !.payload = resourceData("mock_data", Serialized(rq[p].output))])]
    /\ pc' = [pc EXCEPT ![p] = "done"]
    /\ UNCHANGED <<clock, ticks, cache, lastSet, cs, disasters, resources, env, hist,
                   sockets, bulk>>

NextProximity ==
    \/ \E p \in Procs : proximity_start(p)
    \/ \E p \in Procs : proximity_after_get(p)
    \/ \E p \in Procs : proximity_after_set(p)
    \/ \E p \in Procs : get_select(p)
    \/ \E p \in Procs : get_check(p)
    \/ \E p \in Procs : set_upsert(p)

SpecProximity == Init /\ [][NextProximity]_vars

(***************************************************************************)
(* resources.js:124-240: GET /:id/resources, from the query string on.     *)
(***************************************************************************)
\* resources.js:127: lat and lng as the query string carries them ("" is an
\* absent parameter).
CoordinateArgs ==
    {<<"", "">>, <<"40.7831", "-73.9857">>, <<"40.7061", "-73.9969">>,
     <<"0", "-73.9857">>, <<"40.7831", "0">>, <<"0", "0">>,
     <<"abc", "-73.9857">>, <<"40.7831", "">>, <<"", "-73.9857">>}

\* resources.js:129-130: lat ? parseFloat(lat) : null, as "null", "NaN", "0"
\* or the literal of a non-zero number.
parseCoordinate(s) ==
    CASE s = "" -> "null"
      [] s = "abc" -> "NaN"
      [] OTHER -> s

\* !x for x a number or null: null, 0 and NaN are falsy.
not(x) == x \in {"null", "0", "NaN"}

\* isNaN(x): isNaN(null) is false.
isNaN(x) == x = "NaN"

\* resources.js:133
invalidCoordinates(lat, lng) ==
    LET latitude == parseCoordinate(lat)
        longitude == parseCoordinate(lng)
    IN  (lat # "" \/ lng # "") /\
        (not(latitude) \/ not(longitude) \/ isNaN(latitude) \/ isNaN(longitude))

\* resources.js:158, 196: if (latitude && longitude)
withCoordinates(lat, lng) == ~not(parseCoordinate(lat)) /\ ~not(parseCoordinate(lng))

\* resources.js:124-141: the request of an authenticated user with the
\* default radius: 400 for coordinates the check refuses, otherwise the
\* awaited cache.get under the key of the query.
coordinates_start(p) ==
    /\ pc[p] \in {"idle", "done"}
    /\ \E a \in CoordinateArgs :
          LET lat == a[1]
              lng == a[2]
              c == lat \o "," \o lng
              f == [Authenticated(IF withCoordinates(lat, lng) THEN "proximity"
                                  ELSE "resources", NoHeader) EXCEPT
                        !.valid = ~invalidCoordinates(lat, lng),
                        !.input = [lat |-> lat, lng |-> lng, centre |-> c, radius |-> "10"]]
          IN  IF ~f.valid
              THEN /\ rq' = [rq EXCEPT ![p] = Respond(f, 400, Null)]
                   /\ cs' = [cs EXCEPT ![p] = IdleCall]
                   /\ pc' = [pc EXCEPT ![p] = "done"]
              ELSE IF withCoordinates(lat, lng)
              THEN /\ rq' = [rq EXCEPT ![p] = f]
                   /\ cs' = [cs EXCEPT ![p] =
                                getFrame(generateKey("resources", ProximityParams(c, "10")),
                                         "proximity_after_get")]
                   /\ pc' = [pc EXCEPT ![p] = "get_select"]
              ELSE /\ rq' = [rq EXCEPT ![p] = f]
                   /\ cs' = [cs EXCEPT ![p] = getFrame(generateKey("resources", f.id),
                                                      "list_after_get")]
                   /\ pc' = [pc EXCEPT ![p] = "get_select"]
    /\ UNCHANGED <<clock, ticks, cache, lastSet, disasters, resources, env, hist,
                   mockResources, sockets, bulk>>

\* resources.js:143, 212-240: without coordinates a hit is answered from the
\* cache and a miss goes to the store query.
list_after_get(p) ==
    /\ pc[p] = "list_after_get"
    /\ LET f == AfterGet(p)
       IN  IF f.hit
           THEN /\ rq' = [rq EXCEPT ![p] = resources_respond(f)]
                /\ pc' = [pc EXCEPT ![p] = "done"]
           ELSE /\ rq' = [rq EXCEPT ![p] = f]
                /\ pc' = [pc EXCEPT ![p] = "list_query"]
    /\ UNCHANGED <<clock, ticks, cache, lastSet, cs, disasters, resources, env, hist,
                   mockResources, sockets, bulk>>

\* resources.js:187-189: the fixtures of the disaster with status active,
\* the very objects of the module's array.
activeFixtures == FixtureOrder

\* resources.js:168-211: the store query settles: its rows are cached, or on
\* an error the fixtures of the disaster, unfiltered and as they are now.
list_query(p) ==
    /\ pc[p] = "list_query"
    /\ mockResources' = mockResources
    /\ \E o \in Outcomes :
          LET f == [rq[p] EXCEPT !.primaryCalls = @ + 1]
          IN  IF o = "ok"
              THEN CallCacheSet(p, f, generateKey("resources", f.id),
                                resourceData("supabase", <<[id |-> "x1"]>>), ResourcesTTL,
                                "resources_after_set")
              ELSE CallCacheSet(p, [f EXCEPT !.output = slice(activeFixtures, limit)],
                                generateKey("resources", f.id),
                                resourceData("mock_data",
                                             Serialized(slice(activeFixtures, limit))),
                                ResourcesTTL, "proximity_after_set")
    /\ UNCHANGED <<clock, ticks, cache, lastSet, disasters, resources, env, hist, sockets, bulk>>

\* One client after another asks for the resources of disaster 1, with and
\* without coordinates.
CoordinateCallers == {"r1"}

NextCoordinates ==
    \/ \E p \in CoordinateCallers : coordinates_start(p)
    \/ \E p \in CoordinateCallers : list_after_get(p)
    \/ \E p \in CoordinateCallers : list_query(p)
    \/ \E p \in CoordinateCallers : resources_after_set(p)
    \/ \E p \in CoordinateCallers : proximity_after_get(p)
    \/ \E p \in CoordinateCallers : proximity_after_set(p)
    \/ \E p \in CoordinateCallers : get_select(p)
    \/ \E p \in CoordinateCallers : get_check(p)
    \/ \E p \in CoordinateCallers : set_upsert(p)

SpecCoordinates == Init /\ [][NextCoordinates]_vars

(***************************************************************************)
(* verification.js:240-312: POST /:id/verify-images.                       *)
(***************************************************************************)
\* verification.js:252: at most 10 images per request.
MaxImages == 10

\* The processes that run the callbacks of image_urls.map: the i-th callback
\* runs on the i-th of them.
SubRequests == <<"r1", "r2">>

\* Request bodies: image_urls absent or no array, lists of at most
\* Len(SubRequests) entries that are URLs or not, and a list of MaxImages + 1
\* URLs.
RECURSIVE ListsOf(_, _)
ListsOf(S, n) ==
    IF n = 0 THEN {<<>>}
    ELSE ListsOf(S, n - 1) \cup {Append(l, x) : l \in {m \in ListsOf(S, n - 1) : Len(m) = n - 1},
                                               x \in S}
BulkBodies ==
    {[array |-> FALSE, image_urls |-> <<>>]} \cup
    {[array |-> TRUE, image_urls |-> l] :
        l \in ListsOf(ImageUrls \cup {"not a url"}, Len(SubRequests))} \cup
    {[array |-> TRUE, image_urls |-> [i \in 1..(MaxImages + 1) |-> "http://example.com/a.jpg"]]}

\* verification.js:260-269: new URL(url) throws for what is no URL.
isUrl(u) == u \in ImageUrls

Statuses == {"authentic", "suspicious", "fake"}

VerificationResult(url, status, source) ==
    [image_url |-> url, status |-> status, source |-> source]

\* verification.js:18-49, 52-65: the mock result picked by the hash of the
\* URL: index 0 (authentic) for a.jpg, index 1 (suspicious) for b.jpg.
getMockVerificationResult(url) ==
    VerificationResult(url, IF url = "http://example.com/a.jpg" THEN "authentic"
                            ELSE "suspicious", "mock_verification")

\* verification.js:119-123: the catch of verifyImageWithGemini returns the
\* mock result.
verifyImageCatch_rethrow(url) == [kind |-> "raise", val |-> Null]
verifyImageCatch(url) == [kind |-> "return", val |-> getMockVerificationResult(url)]

\* verification.js:245-271: the three checks, in order, before anything else.
bulk_status(body) ==
    IF ~body.array THEN 400
    ELSE IF Len(body.image_urls) > MaxImages THEN 400
    ELSE IF \E i \in 1..Len(body.image_urls) : ~isUrl(body.image_urls[i]) THEN 400
    ELSE 0

SubIndex(p) == CHOOSE i \in 1..Len(SubRequests) : SubRequests[i] = p
Running(body) == {SubRequests[i] : i \in 1..Len(body.image_urls)}

\* verification.js:240-280: validation; then map() runs every callback up to
\* its first await (the cache.get), and the handler awaits Promise.all.
bulk_start ==
    /\ bulk.state \in {"idle", "done"}
    /\ \A p \in Procs : pc[p] \in {"idle", "done"}
    /\ \E body \in BulkBodies :
          IF bulk_status(body) = 400
          THEN /\ bulk' = [IdleBulk EXCEPT !.state = "done", !.input = body, !.status = 400]
               /\ pc' = [p \in Procs |-> "idle"]
               /\ cs' = [p \in Procs |-> IdleCall]
               /\ rq' = [p \in Procs |-> IdleReq]
          ELSE /\ bulk' = [IdleBulk EXCEPT !.state = "waiting", !.input = body]
               /\ pc' = [p \in Procs |-> IF p \in Running(body) THEN "get_select" ELSE "idle"]
               /\ cs' = [p \in Procs |->
                            IF p \in Running(body)
                            THEN getFrame(generateKey("image_verification",
                                                      body.image_urls[SubIndex(p)]),
                                          "bulk_after_get")
                            ELSE IdleCall]
               /\ rq' = [p \in Procs |->
                            IF p \in Running(body)
                            THEN [IdleReq EXCEPT !.handler = "bulk_sub",
                                                 !.input = body.image_urls[SubIndex(p)]]
                            ELSE IdleReq]
    /\ UNCHANGED <<clock, ticks, cache, lastSet, disasters, resources, env, hist,
                   mockResources, sockets>>

\* verification.js:277-278: whatever verifyImageWithGemini returned is cached
\* for 24 hours.
bulk_cache(p, f, result) ==
    CallCacheSet(p, [f EXCEPT !.output = result],
                 generateKey("image_verification", f.input), result, VerificationTTL,
                 "bulk_after_set")

\* The callback's promise settles: fulfilled with its result, or rejected.
bulk_settle(p, f, c) ==
    IF c.kind = "raise"
    THEN /\ rq' = [rq EXCEPT ![p] = f]
         /\ pc' = [pc EXCEPT ![p] = "rejected"]
         /\ cs' = cs
    ELSE bulk_cache(p, f, c.val)

\* verification.js:275-281, 68-73: a hit is the callback's result; on a miss
\* verifyImageWithGemini returns the mock result when no model is configured
\* and otherwise fetches the image.
bulk_after_get(p) ==
    /\ pc[p] = "bulk_after_get"
    /\ LET f == AfterGet(p)
       IN  IF f.hit
           THEN /\ rq' = [rq EXCEPT ![p] = [f EXCEPT !.output = f.payload]]
                /\ pc' = [pc EXCEPT ![p] = "done"]
                /\ cs' = cs
           ELSE IF env.gemini
           THEN /\ rq' = [rq EXCEPT ![p] = f]
                /\ pc' = [pc EXCEPT ![p] = "bulk_fetch"]
                /\ cs' = cs
           ELSE bulk_cache(p, f, getMockVerificationResult(f.input))
    /\ UNCHANGED <<clock, ticks, cache, lastSet, disasters, resources, env, hist,
                   mockResources, sockets, bulk>>

\* verification.js:78-96: the image download settles; a failure is rethrown
\* and lands in the catch of verifyImageWithGemini.
bulk_fetch(p) ==
    /\ pc[p] = "bulk_fetch"
    /\ \E o \in {"ok", "throw"} :
          LET f == [rq[p] EXCEPT !.storeOutcome = o]
          IN  IF o = "ok"
              THEN /\ pc' = [pc EXCEPT ![p] = "bulk_model"]
                   /\ rq' = [rq EXCEPT ![p] = f]
                   /\ cs' = cs
              ELSE bulk_settle(p, f, verifyImageCatch(f.input))
    /\ UNCHANGED <<clock, ticks, cache, lastSet, disasters, resources, env, hist,
                   mockResources, sockets, bulk>>

\* verification.js:109-123, 127-150: the model call settles; its text is
\* parsed into one of the three statuses.
bulk_model(p) ==
    /\ pc[p] = "bulk_model"
    /\ \E o \in {"ok", "throw"} :
          LET f == [rq[p] EXCEPT !.primaryCalls = @ + 1, !.storeOutcome = o]
          IN  IF o = "ok"
              THEN \E st \in Statuses :
                      bulk_cache(p, f, VerificationResult(f.input, st, "gemini_vision"))
              ELSE bulk_settle(p, f, verifyImageCatch(f.input))
    /\ UNCHANGED <<clock, ticks, cache, lastSet, disasters, resources, env, hist,
                   mockResources, sockets, bulk>>

\* verification.js:278-280: after the awaited cache.set the callback returns
\* its result.
bulk_after_set(p) ==
    /\ pc[p] = "bulk_after_set"
    /\ pc' = [pc EXCEPT ![p] = "done"]
    /\ UNCHANGED <<clock, ticks, cache, lastSet, cs, rq, disasters, resources, env, hist,
                   mockResources, sockets, bulk>>

\* verification.js:284-312: Promise.all settles: with the results in the
\* order of the URLs once every callback has returned, or with the first
\* rejection, which the outer catch answers with 500.
bulk_finish ==
    /\ bulk.state = "waiting"
    /\ LET run == Running(bulk.input)
           results == [i \in 1..Len(bulk.input.image_urls) |-> rq[SubRequests[i]].output]
       IN  IF \E p \in run : pc[p] \in {"rejected", "handler_catch"}
           THEN bulk' = [bulk EXCEPT !.state = "done", !.status = 500]
           ELSE /\ \A p \in run : pc[p] = "done"
                /\ bulk' = [bulk EXCEPT !.state = "done", !.status = 200,
                                        !.verifications = results,
                                        !.summary = summaryOf(results)]
    /\ UNCHANGED <<clock, ticks, cache, lastSet, pc, cs, rq, disasters, resources, env, hist,
                   mockResources, sockets>>

NextBulk ==
    \/ bulk_start
    \/ bulk_finish
    \/ \E p \in Procs : bulk_after_get(p)
    \/ \E p \in Procs : bulk_fetch(p)
    \/ \E p \in Procs : bulk_model(p)
    \/ \E p \in Procs : bulk_after_set(p)
    \/ \E p \in Procs : get_select(p)
    \/ \E p \in Procs : get_check(p)
    \/ \E p \in Procs : set_upsert(p)

\* The model may or may not be configured (verification.js:10-15).
InitBulk == InitBase /\ env \in [twitter : {FALSE}, gemini : BOOLEAN, google : {FALSE},
                                 mapbox : {FALSE}, net : {"up"}]

SpecBulk == InitBulk /\ [][NextBulk]_vars

\* Every pending callback and the handler itself are eventually resumed by
\* the event loop.
FairBulk ==
    /\ WF_vars(bulk_finish)
    /\ \A p \in Procs :
          /\ WF_vars(bulk_after_get(p)) /\ WF_vars(bulk_fetch(p)) /\ WF_vars(bulk_model(p))
          /\ WF_vars(bulk_after_set(p))
          /\ WF_vars(get_select(p)) /\ WF_vars(get_check(p)) /\ WF_vars(set_upsert(p))

SpecBulkFair == InitBulk /\ [][NextBulk]_vars /\ FairBulk

(***************************************************************************)
(* part_004:261-344: GET /geocode/reverse.                                 *)
(***************************************************************************)
\* The network between the server and the geocoders goes down or comes back
\* (between requests).
network_change ==
    /\ \A p \in Procs : pc[p] \in {"idle", "done"}
    /\ env' = [env EXCEPT !.net = IF @ = "up" THEN "down" ELSE "up"]
    /\ UNCHANGED <<clock, ticks, cache, lastSet, pc, cs, rq, disasters, resources, hist,
                   mockResources, sockets, bulk>>

\* What an HTTP call to a geocoder can give: a result, an answer without a
\* result, an answer without the address field, or a rejection; an
\* unreachable service always rejects.
GeocoderOutcomes == IF env.net = "down" THEN {"throw"}
                    ELSE {"ok", "empty", "noaddress", "throw"}

\* part_004:261-284: the request of an authenticated user; missing or
\* non-numeric lat/lng are answered 400; otherwise the cache is consulted.
reverse_start(p) ==
    /\ pc[p] \in {"idle", "done"}
    /\ \E u \in RequestUsers, q \in ReverseQueries :
          LET f == [Authenticated("reverse", u) EXCEPT
                        !.valid = q \in ValidCoordinates,
                        !.input = [query |-> q, net |-> env.net]]
          IN  IF f.valid
              THEN /\ rq' = [rq EXCEPT ![p] = f]
                   /\ cs' = [cs EXCEPT ![p] = getFrame(generateKey("reverse_geocoding", q),
                                                      "reverse_after_get")]
                   /\ pc' = [pc EXCEPT ![p] = "get_select"]
              ELSE /\ rq' = [rq EXCEPT ![p] = Respond(f, 400, Null)]
                   /\ cs' = [cs EXCEPT ![p] = IdleCall]
                   /\ pc' = [pc EXCEPT ![p] = "done"]
    /\ UNCHANGED <<clock, ticks, cache, lastSet, disasters, resources, env, hist,
                   mockResources, sockets, bulk>>

\* part_004:340-344: res.json({coordinates, location: locationData, ...})
reverse_respond(f) == Respond(f, 200, f.payload)

reverse_catch_500(f) == Respond(f, 500, Null)
\* part_004:329-335: the inner catch builds the fallback location
\* `Location at ${latitude}, ${longitude}`.
reverse_catch(f) ==
    reverse_respond([f EXCEPT !.payload =
                        Payload("fallback", "Location at " \o f.input.query)])

\* part_004:283-306: a hit is answered at once; a miss asks Google Maps when
\* a key is configured and Nominatim otherwise.
reverse_after_get(p) ==
    /\ pc[p] = "reverse_after_get"
    /\ LET f == AfterGet(p)
       IN  IF f.hit
           THEN /\ rq' = [rq EXCEPT ![p] = reverse_respond(f)]
                /\ pc' = [pc EXCEPT ![p] = "done"]
           ELSE /\ rq' = [rq EXCEPT ![p] = f]
                /\ pc' = [pc EXCEPT ![p] = IF env.google THEN "reverse_google"
                                           ELSE "reverse_nominatim"]
    /\ UNCHANGED <<clock, ticks, cache, lastSet, cs, disasters, resources, env, hist,
                   mockResources, sockets, bulk>>

\* part_004:326-328: a location that was found is cached for an hour.
reverse_found(p, f, source, address) ==
    CallCacheSet(p, f, generateKey("reverse_geocoding", f.input.query),
                 Payload(source, address), GeocodingTTL, "reverse_after_set")

\* part_004:289-303: the Google Maps request settles.
reverse_google(p) ==
    /\ pc[p] = "reverse_google"
    /\ \E o \in GeocoderOutcomes :
          LET f == [rq[p] EXCEPT !.primaryCalls = @ + 1]
          IN  CASE o = "ok" -> reverse_found(p, f, "google_maps", "formatted_address")
                [] o = "noaddress" -> reverse_found(p, f, "google_maps", Undefined)
                [] o = "empty" -> /\ rq' = [rq EXCEPT ![p] = f]
                                  /\ pc' = [pc EXCEPT ![p] = "reverse_nominatim"]
                                  /\ cs' = cs
                [] o = "throw" -> /\ rq' = [rq EXCEPT ![p] = reverse_catch(f)]
                                  /\ pc' = [pc EXCEPT ![p] = "done"]
                                  /\ cs' = cs
    /\ UNCHANGED <<clock, ticks, cache, lastSet, disasters, resources, env, hist,
                   mockResources, sockets, bulk>>

\* part_004:306-328: the Nominatim request settles; without response data
\* locationData stays undefined and nothing is cached.
reverse_nominatim(p) ==
    /\ pc[p] = "reverse_nominatim"
    /\ \E o \in GeocoderOutcomes :
          LET f == [rq[p] EXCEPT !.primaryCalls = @ + 1]
          IN  CASE o = "ok" -> reverse_found(p, f, "nominatim", "display_name")
                [] o = "noaddress" -> reverse_found(p, f, "nominatim", Undefined)
                [] o = "empty" -> /\ rq' = [rq EXCEPT ![p] = reverse_respond(f)]
                                  /\ pc' = [pc EXCEPT ![p] = "done"]
                                  /\ cs' = cs
                [] o = "throw" -> /\ rq' = [rq EXCEPT ![p] = reverse_catch(f)]
                                  /\ pc' = [pc EXCEPT ![p] = "done"]
                                  /\ cs' = cs
    /\ UNCHANGED <<clock, ticks, cache, lastSet, disasters, resources, env, hist,
                   mockResources, sockets, bulk>>

\* part_004:327-344: after the awaited cache.set.
reverse_after_set(p) ==
    /\ pc[p] = "reverse_after_set"
    /\ rq' = [rq EXCEPT ![p] = reverse_respond(rq[p])]
    /\ pc' = [pc EXCEPT ![p] = "done"]
    /\ UNCHANGED <<clock, ticks, cache, lastSet, cs, disasters, resources, env, hist,
                   mockResources, sockets, bulk>>

(***************************************************************************)
(* part_004:18-258: POST /geocode.                                         *)
(***************************************************************************)
\* part_004:18-36: the mock extraction finds the borough in the text.
mockLocationExtraction(text) == "Manhattan"

\* part_004:86-92: what the model answers: a location name, or "Unknown",
\* which extractLocationWithGemini turns into null.
ModelAnswers == {"Manhattan", "Unknown"}

\* part_004:216-218: an extracted name is cached, null is not.
shouldCacheExtraction_always(name) == TRUE
shouldCacheExtraction(name) == name # ""

\* part_004:224-229: without a location name the request is answered 400.
geocode_reject(f) == Respond(f, 400, Null)

\* part_004:231-233: the lookup of the coordinates in the cache.
geocode_lookup_cached(p, f, name) ==
    /\ rq' = [rq EXCEPT ![p] = [f EXCEPT !.output = name]]
    /\ cs' = [cs EXCEPT ![p] = getFrame(generateKey("geocoding", name), "geocode_after_get")]
    /\ pc' = [pc EXCEPT ![p] = "get_select"]

\* part_004:195-210: the request of an authenticated user; without text and
\* without location_name it is answered 400; with a text the extraction cache
\* is consulted, otherwise the geocoding cache.
geocode_start(p) ==
    /\ pc[p] \in {"idle", "done"}
    /\ \E u \in RequestUsers, text \in GeocodeTexts, name \in LocationNames :
          LET f == [Authenticated("geocode", u) EXCEPT
                        !.valid = ~(text = "" /\ name = ""),
                        !.input = [text |-> text, location_name |-> name]]
          IN  IF ~f.valid
              THEN /\ rq' = [rq EXCEPT ![p] = geocode_reject(f)]
                   /\ cs' = [cs EXCEPT ![p] = IdleCall]
                   /\ pc' = [pc EXCEPT ![p] = "done"]
              ELSE IF text # ""
              THEN /\ rq' = [rq EXCEPT ![p] = f]
                   /\ cs' = [cs EXCEPT ![p] = getFrame(generateKey("location_extraction", text),
                                                      "geocode_after_extract_get")]
                   /\ pc' = [pc EXCEPT ![p] = "get_select"]
              ELSE geocode_lookup_cached(p, f, name)
    /\ UNCHANGED <<clock, ticks, cache, lastSet, disasters, resources, env, hist,
                   mockResources, sockets, bulk>>

\* part_004:212-229: the extraction has returned a name or null ("").
geocode_extracted(p, f, name) ==
    IF shouldCacheExtraction(name)
    THEN CallCacheSet(p, [f EXCEPT !.output = name],
                      generateKey("location_extraction", f.input.text),
                      Payload("location_extraction", name), GeocodingTTL,
                      "geocode_after_extract_set")
    ELSE /\ rq' = [rq EXCEPT ![p] = geocode_reject(f)]
         /\ pc' = [pc EXCEPT ![p] = "done"]
         /\ cs' = cs

\* part_004:210-222, 72-78: a cached extraction is used as it is; on a miss
\* extractLocationWithGemini returns the mock extraction when no model is
\* configured and otherwise asks the model.
geocode_after_extract_get(p) ==
    /\ pc[p] = "geocode_after_extract_get"
    /\ LET f == AfterGet(p)
       IN  IF f.hit
           THEN geocode_lookup_cached(p, f, f.payload.body)
           ELSE IF env.gemini
           THEN /\ rq' = [rq EXCEPT ![p] = f]
                /\ pc' = [pc EXCEPT ![p] = "geocode_extract"]
                /\ cs' = cs
           ELSE geocode_extracted(p, f, mockLocationExtraction(f.input.text))
    /\ UNCHANGED <<clock, ticks, cache, lastSet, disasters, resources, env, hist,
                   mockResources, sockets, bulk>>

\* part_004:80-102: the model call settles; a failure lands in the catch,
\* which returns the mock extraction.
geocode_extract(p) ==
    /\ pc[p] = "geocode_extract"
    /\ LET f == [rq[p] EXCEPT !.primaryCalls = @ + 1]
       IN  \/ \E a \in ModelAnswers :
                geocode_extracted(p, f, IF a = "Unknown" THEN "" ELSE a)
           \/ geocode_extracted(p, f, mockLocationExtraction(f.input.text))
    /\ UNCHANGED <<clock, ticks, cache, lastSet, disasters, resources, env, hist,
                   mockResources, sockets, bulk>>

\* part_004:217-233: after the awaited cache.set of the extraction, the check
\* of line 224 and the lookup of the coordinates.
geocode_after_extract_set(p) ==
    /\ pc[p] = "geocode_after_extract_set"
    /\ IF rq[p].output = ""
       THEN /\ rq' = [rq EXCEPT ![p] = geocode_reject(rq[p])]
            /\ pc' = [pc EXCEPT ![p] = "done"]
            /\ cs' = cs
       ELSE geocode_lookup_cached(p, rq[p], rq[p].output)
    /\ UNCHANGED <<clock, ticks, cache, lastSet, disasters, resources, env, hist,
                   mockResources, sockets, bulk>>

\* part_004:234-250: cached coordinates are answered at once; on a miss
\* geocodeLocation is awaited, which starts with the first geocoder that is
\* configured (part_004:109, 130; Nominatim needs no key).
geocode_after_get(p) ==
    /\ pc[p] = "geocode_after_get"
    /\ LET f == AfterGet(p)
       IN  IF f.hit
           THEN /\ rq' = [rq EXCEPT ![p] = Respond(f, 200, f.payload)]
                /\ pc' = [pc EXCEPT ![p] = "done"]
           ELSE /\ rq' = [rq EXCEPT ![p] = [f EXCEPT !.entry = <<>>]]
                /\ pc' = [pc EXCEPT ![p] = IF env.google THEN "geocode_google"
                                           ELSE IF env.mapbox THEN "geocode_mapbox"
                                           ELSE "geocode_nominatim"]
    /\ UNCHANGED <<clock, ticks, cache, lastSet, cs, disasters, resources, env, hist,
                   mockResources, sockets, bulk>>

\* part_004:236-237: what geocodeLocation returned is cached for an hour.
geocode_found(p, f, source) ==
    CallCacheSet(p, f, generateKey("geocoding", f.output), Payload(source, f.output),
                 GeocodingTTL, "geocode_after_set")

\* What a forward geocoder's HTTP call can give: a result, an answer without
\* result, or a rejection (an answer of another shape makes the code that
\* reads it throw, which is a rejection to the caller).
ForwardOutcomes == GeocoderOutcomes \ {"noaddress"}

\* part_004:183-191: the catch of geocodeLocation returns the mock
\* coordinates, whichever call threw.
geocodeCatch(p, f) == geocode_found(p, f, "mock")

\* A geocoder call has settled: its result is returned, an answer without
\* result moves on to the next geocoder, a thrown error goes to the catch.
geocoder_settled(p, name, o, next) ==
    LET f == [rq[p] EXCEPT !.primaryCalls = @ + 1, !.entry = Append(@, name)]
    IN  CASE o = "ok" -> geocode_found(p, f, name)
          [] o = "empty" -> IF next = "mock" THEN geocode_found(p, f, "mock")
                            ELSE /\ rq' = [rq EXCEPT ![p] = f]
                                 /\ pc' = [pc EXCEPT ![p] = next]
                                 /\ cs' = cs
          [] o = "throw" -> geocodeCatch(p, f)

\* part_004:109-127: the Google Maps request settles.
geocode_google(p) ==
    /\ pc[p] = "geocode_google"
    /\ \E o \in ForwardOutcomes :
          geocoder_settled(p, "google_maps", o,
                           IF env.mapbox THEN "geocode_mapbox" ELSE "geocode_nominatim")
    /\ UNCHANGED <<clock, ticks, cache, lastSet, disasters, resources, env, hist,
                   mockResources, sockets, bulk>>

\* part_004:130-149: the Mapbox request settles.
geocode_mapbox(p) ==
    /\ pc[p] = "geocode_mapbox"
    /\ \E o \in ForwardOutcomes :
          geocoder_settled(p, "mapbox", o, "geocode_nominatim")
    /\ UNCHANGED <<clock, ticks, cache, lastSet, disasters, resources, env, hist,
                   mockResources, sockets, bulk>>

\* part_004:152-181: the Nominatim request settles; without result the mock
\* coordinates are returned.
geocode_nominatim(p) ==
    /\ pc[p] = "geocode_nominatim"
    /\ \E o \in ForwardOutcomes : geocoder_settled(p, "nominatim", o, "mock")
    /\ UNCHANGED <<clock, ticks, cache, lastSet, disasters, resources, env, hist,
                   mockResources, sockets, bulk>>

\* part_004:238-250: after the awaited cache.set.
geocode_after_set(p) ==
    /\ pc[p] = "geocode_after_set"
    /\ rq' = [rq EXCEPT ![p] = Respond(rq[p], 200, rq[p].payload)]
    /\ pc' = [pc EXCEPT ![p] = "done"]
    /\ UNCHANGED <<clock, ticks, cache, lastSet, cs, disasters, resources, env, hist,
                   mockResources, sockets, bulk>>

ReverseCallers == {"r1"}

NextReverse ==
    \/ Tick
    \/ network_change
    \/ \E p \in ReverseCallers : reverse_start(p)
    \/ \E p \in ReverseCallers : reverse_after_get(p)
    \/ \E p \in ReverseCallers : reverse_google(p)
    \/ \E p \in ReverseCallers : reverse_nominatim(p)
    \/ \E p \in ReverseCallers : reverse_after_set(p)
    \/ \E p \in ReverseCallers : get_select(p)
    \/ \E p \in ReverseCallers : get_check(p)
    \/ \E p \in ReverseCallers : set_upsert(p)
    \/ \E p \in ReverseCallers : delete_db(p)

SpecReverse == InitGeo /\ [][NextReverse]_vars

\* The requests that validate their input, one at a time.
ValidateCallers == {"r1"}

NextValidate ==
    \/ \E p \in ValidateCallers : geocode_start(p)
    \/ \E p \in ValidateCallers : geocode_after_extract_get(p)
    \/ \E p \in ValidateCallers : geocode_extract(p)
    \/ \E p \in ValidateCallers : geocode_after_extract_set(p)
    \/ \E p \in ValidateCallers : geocode_after_get(p)
    \/ \E p \in ValidateCallers : geocode_google(p)
    \/ \E p \in ValidateCallers : geocode_mapbox(p)
    \/ \E p \in ValidateCallers : geocode_nominatim(p)
    \/ \E p \in ValidateCallers : geocode_after_set(p)
    \/ \E p \in ValidateCallers : disaster_post_start(p, RequestUsers)
    \/ \E p \in ValidateCallers : disaster_insert(p)
    \/ \E p \in ValidateCallers : resource_post_start(p)
    \/ \E p \in ValidateCallers : resource_insert(p)
    \/ \E p \in ValidateCallers : verify_start(p)
    \/ \E p \in ValidateCallers : verify_after_get(p)
    \/ \E p \in ValidateCallers : verify_fetch(p)
    \/ \E p \in ValidateCallers : verify_model(p)
    \/ \E p \in ValidateCallers : verify_after_set(p)
    \/ \E p \in ValidateCallers : get_select(p)
    \/ \E p \in ValidateCallers : get_check(p)
    \/ \E p \in ValidateCallers : set_upsert(p)
    \/ \E p \in ValidateCallers : handler_catch(p)

\* The model and the keys of Google Maps and Mapbox may or may not be
\* configured (part_000:13-20).
InitValidate == InitBase /\ env \in [twitter : {FALSE}, gemini : BOOLEAN, google : BOOLEAN,
                                     mapbox : BOOLEAN, net : {"up"}]

SpecValidate == InitValidate /\ [][NextValidate]_vars

\* The mutation endpoints, one request at a time.
\* Two clients create disasters and resources at the same time.
NextRespond ==
    \/ \E p \in Procs : disaster_post_start(p, RequestUsers)
    \/ \E p \in Procs : disaster_insert(p)
    \/ \E p \in Procs : resource_post_start(p)
    \/ \E p \in Procs : resource_insert(p)
    \/ \E p \in Procs : handler_catch(p)

SpecRespond == Init /\ [][NextRespond]_vars

\* The continuation of a settled store call is run by the event loop.
FairRespond ==
    \A p \in Procs :
        /\ WF_vars(disaster_insert(p))
        /\ WF_vars(resource_insert(p))
        /\ WF_vars(handler_catch(p))

SpecRespondFair == Init /\ [][NextRespond]_vars /\ FairRespond

MutateCallers == {"r1"}

NextMutate ==
    \/ Tick
    \/ \E p \in MutateCallers : disaster_post_start(p, RequestUsers)
    \/ \E p \in MutateCallers : disaster_insert(p)
    \/ \E p \in MutateCallers : disaster_put_start(p, RequestUsers)
    \/ \E p \in MutateCallers : disaster_put_fetch(p)
    \/ \E p \in MutateCallers : disaster_put_update(p)
    \/ \E p \in MutateCallers : disaster_delete_start(p, RequestUsers)
    \/ \E p \in MutateCallers : disaster_delete_db(p)
    \/ \E p \in MutateCallers : resource_post_start(p)
    \/ \E p \in MutateCallers : resource_insert(p)
    \/ \E p \in MutateCallers : resource_put_start(p)
    \/ \E p \in MutateCallers : resource_update(p)
    \/ \E p \in MutateCallers : handler_catch(p)

SpecMutate == Init /\ [][NextMutate]_vars

\* The disaster routes behind the authentication middleware, for every
\* x-user-id header a client may send.
AuthCallers == {"r1"}

NextAuth ==
    \/ \E p \in AuthCallers : disaster_post_start(p, Headers)
    \/ \E p \in AuthCallers : disaster_insert(p)
    \/ \E p \in AuthCallers : disaster_put_start(p, Headers)
    \/ \E p \in AuthCallers : disaster_put_fetch(p)
    \/ \E p \in AuthCallers : disaster_put_update(p)
    \/ \E p \in AuthCallers : disaster_delete_start(p, Headers)
    \/ \E p \in AuthCallers : disaster_delete_db(p)
    \/ \E p \in AuthCallers : handler_catch(p)

SpecAuth == Init /\ [][NextAuth]_vars

\* Concurrent updates of disasters: both requests interleave at their awaits.
NextUpdate ==
    \/ Tick
    \/ \E p \in Procs : disaster_put_start(p, RequestUsers)
    \/ \E p \in Procs : disaster_put_fetch(p)
    \/ \E p \in Procs : disaster_put_update(p)
    \/ \E p \in Procs : handler_catch(p)

SpecUpdate == Init /\ [][NextUpdate]_vars

(***************************************************************************)
(* part_006:73-91: determinePriority.  A text is the sequence of its       *)
(* characters.                                                             *)
(***************************************************************************)
MaxFragments == 3

criticalKeywords ==
    {<<"u", "r", "g", "e", "n", "t">>,
     <<"e", "m", "e", "r", "g", "e", "n", "c", "y">>,
     <<"s", "o", "s">>,
     <<"h", "e", "l", "p">>,
     <<"t", "r", "a", "p", "p", "e", "d">>,
     <<"e", "v", "a", "c", "u", "a", "t", "i", "o", "n">>,
     <<"i", "m", "m", "e", "d", "i", "a", "t", "e">>}
highKeywords ==
    {<<"b", "r", "e", "a", "k", "i", "n", "g">>,
     <<"a", "l", "e", "r", "t">>,
     <<"w", "a", "r", "n", "i", "n", "g">>,
     <<"d", "a", "n", "g", "e", "r">>,
     <<"r", "e", "s", "c", "u", "e">>}
normalKeywords ==
    {<<"s", "h", "e", "l", "t", "e", "r">>,
     <<"f", "o", "o", "d">>,
     <<"w", "a", "t", "e", "r">>,
     <<"m", "e", "d", "i", "c", "a", "l">>,
     <<"a", "s", "s", "i", "s", "t", "a", "n", "c", "e">>}

\* String.prototype.toLowerCase on one character.
lowerChar(c) ==
    CASE c = "A" -> "a"
      [] c = "B" -> "b"
      [] c = "C" -> "c"
      [] c = "D" -> "d"
      [] c = "E" -> "e"
      [] c = "F" -> "f"
      [] c = "G" -> "g"
      [] c = "H" -> "h"
      [] c = "I" -> "i"
      [] c = "J" -> "j"
      [] c = "K" -> "k"
      [] c = "L" -> "l"
      [] c = "M" -> "m"
      [] c = "N" -> "n"
      [] c = "O" -> "o"
      [] c = "P" -> "p"
      [] c = "Q" -> "q"
      [] c = "R" -> "r"
      [] c = "S" -> "s"
      [] c = "T" -> "t"
      [] c = "U" -> "u"
      [] c = "V" -> "v"
      [] c = "W" -> "w"
      [] c = "X" -> "x"
      [] c = "Y" -> "y"
      [] c = "Z" -> "z"
      [] OTHER -> c

toLowerCase(text) == [i \in 1..Len(text) |-> lowerChar(text[i])]

\* String.prototype.includes: keyword occurs as a contiguous substring.
includes(text, keyword) ==
    \E i \in 0..(Len(text) - Len(keyword)) :
        SubSeq(text, i + 1, i + Len(keyword)) = keyword

determinePriority_highFirst(content) ==
    LET lowerContent == toLowerCase(content)
    IN  IF \E keyword \in highKeywords : includes(lowerContent, keyword) THEN "high"
        ELSE IF \E keyword \in criticalKeywords : includes(lowerContent, keyword)
        THEN "critical"
        ELSE IF \E keyword \in normalKeywords : includes(lowerContent, keyword)
        THEN "normal"
        ELSE "low"
\* part_006:73-91.
determinePriority(content) ==
    LET lowerContent == toLowerCase(content)
    IN  IF \E keyword \in criticalKeywords : includes(lowerContent, keyword)
        THEN "critical"
        ELSE IF \E keyword \in highKeywords : includes(lowerContent, keyword) THEN "high"
        ELSE IF \E keyword \in normalKeywords : includes(lowerContent, keyword)
        THEN "normal"
        ELSE "low"

\* The post texts classified: every concatenation of at most MaxFragments of
\* these pieces ("SO" followed by "s" spells a keyword across two pieces).
Fragments == {<<"S", "O">>, <<"s">>, <<"A", "l", "e", "r", "t">>, <<"f", "o", "o", "d", " ">>, <<"H", "e", "l", "p", "l", "e", "s", "s">>, <<"x">>}

RECURSIVE TextsOf(_)
TextsOf(n) ==
    IF n = 0 THEN {<<>>}
    ELSE LET shorter == TextsOf(n - 1)
         IN  shorter \cup {t \o f : t \in shorter, f \in Fragments}

Texts == TextsOf(MaxFragments)

\* part_006:193, 211, 288: a post's content is classified.
priority_classify(p) ==
    /\ pc[p] = "idle"
    /\ \E text \in Texts :
          rq' = [rq EXCEPT ![p] = [IdleReq EXCEPT !.handler = "priority", !.input = text,
                                                  !.output = determinePriority(text)]]
    /\ pc' = [pc EXCEPT ![p] = "done"]
    /\ cs' = [cs EXCEPT ![p] = IdleCall]
    /\ UNCHANGED <<clock, ticks, cache, lastSet, disasters, resources, env, hist,
                   mockResources, sockets, bulk>>

NextPriority == \E p \in {"r1"} : priority_classify(p)

SpecPriority == Init /\ [][NextPriority]_vars

(***************************************************************************)
(* part_007:52-63: the Socket.IO server.  Rooms are left only by            *)
(* disconnecting.                                                          *)
(***************************************************************************)
\* part_007:52: a client connects.
socket_connect(s) ==
    /\ ~sockets[s].connected
    /\ sockets' = [sockets EXCEPT ![s] = [connected |-> TRUE, rooms |-> {}]]
    /\ UNCHANGED <<clock, ticks, cache, lastSet, pc, cs, rq, disasters, resources, env,
                   hist, mockResources, bulk>>

\* part_007:55-58: socket.on('join_disaster', id => socket.join(...)).
join_disaster(s) ==
    /\ sockets[s].connected
    /\ \E d \in DisasterIds :
          sockets' = [sockets EXCEPT ![s].rooms = @ \cup {Room(d)}]
    /\ UNCHANGED <<clock, ticks, cache, lastSet, pc, cs, rq, disasters, resources, env,
                   hist, mockResources, bulk>>

\* part_007:60-62: a disconnected socket is in no room.
socket_disconnect(s) ==
    /\ sockets[s].connected
    /\ sockets' = [sockets EXCEPT ![s] = [connected |-> FALSE, rooms |-> {}]]
    /\ UNCHANGED <<clock, ticks, cache, lastSet, pc, cs, rq, disasters, resources, env,
                   hist, mockResources, bulk>>

\* Listeners come and go while resources and disasters are changed.
RoomCallers == {"r1"}

NextRooms ==
    \/ \E s \in Sockets : socket_connect(s)
    \/ \E s \in Sockets : join_disaster(s)
    \/ \E s \in Sockets : socket_disconnect(s)
    \/ \E p \in RoomCallers : resource_post_start(p)
    \/ \E p \in RoomCallers : resource_insert(p)
    \/ \E p \in RoomCallers : resource_put_start(p)
    \/ \E p \in RoomCallers : resource_update(p)
    \/ \E p \in RoomCallers : disaster_put_start(p, RequestUsers)
    \/ \E p \in RoomCallers : disaster_put_fetch(p)
    \/ \E p \in RoomCallers : disaster_put_update(p)
    \/ \E p \in RoomCallers : handler_catch(p)

SpecRooms == Init /\ [][NextRooms]_vars

(***************************************************************************)
(* officialUpdates.js:212-323: GET /:id/official-updates.                  *)
(***************************************************************************)
\* officialUpdates.js:10-87: the fixture, in array order.
mockOfficialUpdates == <<"1", "2", "3", "4", "5", "6">>

\* officialUpdates.js:89-210: what each scraper returns when its request
\* succeeds and the page has one matching item; a failed request is caught
\* inside the scraper, which then returns [].
Scraped == [fema |-> <<"fema_0">>, redcross |-> <<"redcross_0">>, nws |-> <<"nws_0">>]

\* officialUpdates.js:18-84, 113, 155, 197: update.priority
priorityOf(u) ==
    CASE u \in {"1", "4", "5", "fema_0"} -> "high"
      [] u = "2" -> "critical"
      [] OTHER -> "normal"

\* officialUpdates.js:17-83, 112, 154, 196: published_at, as minutes before
\* the request (the fixture's dates are fixed when the module loads, a
\* scraped item without date gets the time of the scrape).
publishedAgo ==
    [u \in {"1", "2", "3", "4", "5", "6", "fema_0", "redcross_0", "nws_0"} |->
        CASE u = "1" -> 120 [] u = "2" -> 90 [] u = "3" -> 60 [] u = "4" -> 45
          [] u = "5" -> 30 [] u = "6" -> 20 [] OTHER -> 0]

\* officialUpdates.js:282: parseInt(limit)
parseInt(l) == CASE l = "20" -> 20 [] l = "1" -> 1

\* officialUpdates.js:268-270: priority, when given, must match.
matchesPriority(q, u) == q.priority = "" \/ priorityOf(u) = q.priority

\* officialUpdates.js:272-277: since, when given, is the earliest
\* published_at that is kept ("50": fifty minutes before the request).
matchesSince(q, u) == q.since = "" \/ publishedAgo[u] <= 50

\* officialUpdates.js:258-282: filter, sort newest first, cut to the limit.
filteredUpdates(allUpdates, q) ==
    slice(sort(SelectSeq(allUpdates,
                         LAMBDA u : matchesPriority(q, u) /\ matchesSince(q, u)),
               publishedAgo),
          parseInt(q.limit))

\* officialUpdates.js:284-289: the object that is cached and answered from.
officialUpdates(allUpdates, q) ==
    [updates |-> filteredUpdates(allUpdates, q),
     scraped_at |-> clock,
     sources_attempted |-> <<"fema", "redcross", "nws">>,
     total_found |-> Len(allUpdates)]

\* officialUpdates.js:300-314: res.json({disaster_id, data, meta}).
official_respond(f) ==
    Respond(f, 200,
            [disaster_id |-> f.id,
             data |-> f.payload.updates,
             meta |-> [total_count |-> Len(f.payload.updates),
                       filters |-> [priority |-> f.input.priority,
                                    since |-> f.input.since],
                       scraped_at |-> f.payload.scraped_at,
                       sources_attempted |-> f.payload.sources_attempted]])

\* officialUpdates.js:213-219: the request of an authenticated user, up to
\* the awaited cache.get; source is absent from the query.
official_start(p, queries) ==
    /\ pc[p] \in {"idle", "done"}
    /\ \E q \in queries :
          /\ rq' = [rq EXCEPT ![p] =
                       [IdleReq EXCEPT !.handler = "official_updates", !.input = q]]
          /\ cs' = [cs EXCEPT ![p] =
                       getFrame(generateKey("official_updates", OfficialParams(q.priority)),
                                "official_after_get")]
    /\ pc' = [pc EXCEPT ![p] = "get_select"]
    /\ UNCHANGED <<clock, ticks, cache, lastSet, disasters, resources, env, hist,
                   mockResources, sockets, bulk>>

\* officialUpdates.js:221-222, 296-314: a hit is answered from the cached
\* object; a miss starts with an empty allUpdates.
official_after_get(p) ==
    /\ pc[p] = "official_after_get"
    /\ LET f == AfterGet(p)
       IN  IF f.hit
           THEN /\ rq' = [rq EXCEPT ![p] = official_respond(f)]
                /\ pc' = [pc EXCEPT ![p] = "done"]
           ELSE /\ rq' = [rq EXCEPT ![p] = [f EXCEPT !.output = <<>>]]
                /\ pc' = [pc EXCEPT ![p] = "official_fema"]
    /\ UNCHANGED <<clock, ticks, cache, lastSet, cs, disasters, resources, env, hist,
                   mockResources, sockets, bulk>>

\* officialUpdates.js:229-247: allUpdates.concat(await scraper()).
concatScraped(f, o, items) ==
    [f EXCEPT !.primaryCalls = @ + 1,
              !.output = @ \o (IF o = "ok" THEN items ELSE <<>>)]

\* officialUpdates.js:229-232: the FEMA scraper settles.
official_fema(p) ==
    /\ pc[p] = "official_fema"
    /\ \E o \in {"ok", "throw"} :
          rq' = [rq EXCEPT ![p] = concatScraped(rq[p], o, Scraped.fema)]
    /\ pc' = [pc EXCEPT ![p] = "official_redcross"]
    /\ UNCHANGED <<clock, ticks, cache, lastSet, cs, disasters, resources, env, hist,
                   mockResources, sockets, bulk>>

\* officialUpdates.js:235-238: the Red Cross scraper settles.
official_redcross(p) ==
    /\ pc[p] = "official_redcross"
    /\ \E o \in {"ok", "throw"} :
          rq' = [rq EXCEPT ![p] = concatScraped(rq[p], o, Scraped.redcross)]
    /\ pc' = [pc EXCEPT ![p] = "official_nws"]
    /\ UNCHANGED <<clock, ticks, cache, lastSet, cs, disasters, resources, env, hist,
                   mockResources, sockets, bulk>>

\* officialUpdates.js:250-253: nothing scraped: the fixture is used.
orMock(allUpdates) == IF Len(allUpdates) = 0 THEN mockOfficialUpdates ELSE allUpdates

\* officialUpdates.js:241-294: the feed reader settles; the fixture replaces
\* an empty result, the filters are applied and the object is passed to
\* cache.set.
official_nws(p) ==
    /\ pc[p] = "official_nws"
    /\ \E o \in {"ok", "throw"} :
          LET g == concatScraped(rq[p], o, Scraped.nws)
              f == [g EXCEPT !.output = orMock(@)]
          IN  CallCacheSet(p, f,
                           generateKey("official_updates",
                                       OfficialParams(f.input.priority)),
                           officialUpdates(f.output, f.input), OfficialUpdatesTTL,
                           "official_after_set")
    /\ UNCHANGED <<clock, ticks, cache, lastSet, disasters, resources, env, hist,
                   mockResources, sockets, bulk>>

\* officialUpdates.js:294-314: after the awaited cache.set.
official_after_set(p) ==
    /\ pc[p] = "official_after_set"
    /\ rq' = [rq EXCEPT ![p] = official_respond(rq[p])]
    /\ pc' = [pc EXCEPT ![p] = "done"]
    /\ UNCHANGED <<clock, ticks, cache, lastSet, cs, disasters, resources, env, hist,
                   mockResources, sockets, bulk>>

\* One client after another asks for the official updates of disaster d1.
OfficialCallers == {"r1"}

NextOfficial ==
    \/ \E p \in OfficialCallers : official_start(p, OfficialQueries)
    \/ \E p \in OfficialCallers : official_after_get(p)
    \/ \E p \in OfficialCallers : official_fema(p)
    \/ \E p \in OfficialCallers : official_redcross(p)
    \/ \E p \in OfficialCallers : official_nws(p)
    \/ \E p \in OfficialCallers : official_after_set(p)
    \/ \E p \in OfficialCallers : get_select(p)
    \/ \E p \in OfficialCallers : get_check(p)
    \/ \E p \in OfficialCallers : set_upsert(p)

SpecOfficial == Init /\ [][NextOfficial]_vars

(***************************************************************************)
(* Every cache-backed route with its external services configured.         *)
(***************************************************************************)
\* One client after another calls the cache-backed routes; every API key is
\* configured (part_000:13-20), so each route has a primary source to ask.
InitConfigured ==
    InitBase /\ env = [twitter |-> TRUE, gemini |-> TRUE, google |-> TRUE,
                       mapbox |-> TRUE, net |-> "up"]

RouteCallers == {"r1"}

NextRoutes ==
    \/ \E p \in RouteCallers : resources_start(p)
    \/ \E p \in RouteCallers : resources_after_get(p)
    \/ \E p \in RouteCallers : resources_query(p)
    \/ \E p \in RouteCallers : resources_after_set(p)
    \/ \E p \in RouteCallers : social_start(p)
    \/ \E p \in RouteCallers : social_after_get(p)
    \/ \E p \in RouteCallers : social_api(p)
    \/ \E p \in RouteCallers : social_after_set(p)
    \/ \E p \in RouteCallers :
          official_start(p, {[priority |-> "high", since |-> "", limit |-> "20"]})
    \/ \E p \in RouteCallers : official_after_get(p)
    \/ \E p \in RouteCallers : official_fema(p)
    \/ \E p \in RouteCallers : official_redcross(p)
    \/ \E p \in RouteCallers : official_nws(p)
    \/ \E p \in RouteCallers : official_after_set(p)
    \/ \E p \in RouteCallers : verify_start(p)
    \/ \E p \in RouteCallers : verify_after_get(p)
    \/ \E p \in RouteCallers : verify_fetch(p)
    \/ \E p \in RouteCallers : verify_model(p)
    \/ \E p \in RouteCallers : verify_after_set(p)
    \/ \E p \in RouteCallers : geocode_start(p)
    \/ \E p \in RouteCallers : geocode_after_extract_get(p)
    \/ \E p \in RouteCallers : geocode_extract(p)
    \/ \E p \in RouteCallers : geocode_after_extract_set(p)
    \/ \E p \in RouteCallers : geocode_after_get(p)
    \/ \E p \in RouteCallers : geocode_google(p)
    \/ \E p \in RouteCallers : geocode_mapbox(p)
    \/ \E p \in RouteCallers : geocode_nominatim(p)
    \/ \E p \in RouteCallers : geocode_after_set(p)
    \/ \E p \in RouteCallers : get_select(p)
    \/ \E p \in RouteCallers : get_check(p)
    \/ \E p \in RouteCallers : set_upsert(p)

SpecRoutes == InitConfigured /\ [][NextRoutes]_vars

(***************************************************************************)
(* Properties of the cache service.                                        *)
(***************************************************************************)
GetDone(p) == pc[p] = "done" /\ cs[p].op = "get"

C2_AbsentAfterTTL ==
    \A p \in Procs :
        (/\ GetDone(p)
         /\ cs[p].seen # NoSet
         /\ cs[p].seen.ttlSeconds # NullTTL
         /\ cs[p].callTime >= cs[p].seen.t0 + cs[p].seen.ttlSeconds * MsPerSecond)
        => cs[p].ret = Null

C4_SetEffect ==
    [][\A p \in Procs :
          (/\ pc[p] = "set_upsert"
           /\ pc'[p] # "set_upsert"
           /\ cs'[p].ret = JsTrue
           /\ cs[p].ttlSeconds # NullTTL)
          => /\ cache'[cs[p].key] =
                   Row(cs[p].value, cs[p].callTime + cs[p].ttlSeconds * MsPerSecond)
             /\ \A k \in CacheKeys \ {cs[p].key} : cache'[k] = cache[k]]_vars

(***************************************************************************)
(* Properties of the cache-backed fetch handlers.                          *)
(***************************************************************************)
AfterGetPcs == {"resources_after_get", "social_after_get", "verify_after_get"}
FetchDone(p) == pc[p] = "done" /\ rq[p].handler \in {"resources", "social_media", "verify_image"}

\* C5: when the underlying store operation fails (error result or thrown
\* exception) get returns null, set (like delete and clear) reports false and
\* leaves the store unchanged, none of them raises to its caller, and the
\* handler that called get goes on as on a miss and still answers 200.
C5_StoreErrorsSwallowed ==
    [][\A p \in Procs : pc'[p] # pc[p] =>
          /\ cs'[p].kind # "raise"
          /\ pc'[p] # "handler_catch"
          /\ (pc[p] = "get_check" /\ cs[p].outcome # "ok") =>
                (cs'[p].ret = Null /\ pc'[p] = cs[p].cont)
          /\ (pc[p] \in {"set_upsert", "delete_db", "clear_db"} /\ cs'[p].wout # "ok") =>
                /\ cache' = cache
                /\ cs'[p].ret = (IF cs[p].nested THEN Null ELSE JsFalse)
          /\ (pc[p] \in AfterGetPcs /\ cs[p].outcome # "ok") =>
                (~rq'[p].hit /\ rq'[p].lookup = "fault" /\ rq'[p].status \in {0, 200})
          /\ (pc'[p] = "done" /\ rq'[p].lookup = "fault") => rq'[p].status = 200]_vars

\* A request whose cache lookup and cache write both failed was answered 200.
C5_Witness ==
    \E p \in Procs :
        /\ FetchDone(p)
        /\ rq[p].lookup = "fault"
        /\ cs[p].op = "set"
        /\ cs[p].wout # "ok"
        /\ cs[p].ret = JsFalse
        /\ rq[p].status = 200

C7_NoSyntheticInCache ==
    /\ \A k \in HandlerKeys : cache[k] # NoRow => ~Synthetic(cache[k].value)
    /\ \A p \in Procs : (FetchDone(p) /\ rq[p].lookup = "hit") => ~Synthetic(rq[p].body)

(***************************************************************************)
(* Properties of the mutation handlers.                                    *)
(***************************************************************************)
Mutations == {"disaster_post", "disaster_put", "disaster_delete",
              "resource_post", "resource_put"}
MutationDone(p) == pc[p] = "done" /\ rq[p].handler \in Mutations
StoreFailed(p) == rq[p].storeOutcome \in {"error", "throw"}
Success(p) == rq[p].status \in {200, 201}

\* The action tag of each mutation endpoint.
ActionOf(handler) ==
    CASE handler \in {"disaster_post", "resource_post"} -> "create"
      [] handler \in {"disaster_put", "resource_put"} -> "update"
      [] handler = "disaster_delete" -> "delete"

C9_OneEventPerWrite ==
    \A p \in Procs : (MutationDone(p) /\ Success(p)) =>
        /\ Len(rq[p].emitted) = 1
        /\ rq[p].emitted[1].action = ActionOf(rq[p].handler)

\* C10: a disaster's audit trail is append-only: every successful update
\* leaves the trail equal to the trail before it plus exactly one new entry
\* (action update, acting user, timestamp), and after k successful updates,
\* however they interleave, the trail is k entries longer than at creation.
C10_AppendOnlyTrail ==
    /\ [](\A d \in DisasterIds : disasters[d] # NoRow =>
             Len(disasters[d].audit_trail) = 1 + hist.updates[d])
    /\ [][\A p \in Procs :
             (pc[p] = "disaster_put_update" /\ pc'[p] = "done" /\ rq'[p].status = 200) =>
                /\ Len(disasters'[rq[p].id].audit_trail) =
                      Len(disasters[rq[p].id].audit_trail) + 1
                /\ SubSeq(disasters'[rq[p].id].audit_trail, 1,
                          Len(disasters[rq[p].id].audit_trail))
                      = disasters[rq[p].id].audit_trail
                /\ disasters'[rq[p].id].audit_trail[Len(disasters'[rq[p].id].audit_trail)]
                      = [action |-> "update", user_id |-> rq[p].user,
                         timestamp |-> rq[p].entry.timestamp]]_vars

(***************************************************************************)
(* Properties of authentication and authorization.                         *)
(***************************************************************************)
AuthHandlers == {"disaster_post", "disaster_put", "disaster_delete"}
IsAdmin(f) == f.user \in DOMAIN mockUsers /\ mockUsers[f.user] = "admin"

C19_KnownIdentityOnly ==
    \A p \in Procs : rq[p].handler \in AuthHandlers =>
        LET f == rq[p]
        IN  /\ f.status # 401 =>
                  (f.user \in DOMAIN mockUsers /\ f.role = mockUsers[f.user])
            /\ f.header = NoHeader =>
                  (f.status # 401 /\ f.user = "citizen1" /\ f.role = "contributor")
            /\ (f.header # NoHeader /\ f.header \notin DOMAIN mockUsers) =>
                  /\ f.status = 401
                  /\ pc[p] = "done"
                  /\ f.storeOutcome = "none"
                  /\ f.emitted = <<>>
            /\ f.role = "admin" =>
                  (f.header \in DOMAIN mockUsers /\ mockUsers[f.header] = "admin")

(***************************************************************************)
(* Properties of the priority classifier.                                  *)
(***************************************************************************)
Mentions(text, keywords) ==
    \E k \in keywords : \E i \in 0..(Len(text) - Len(k)) :
        \A j \in 1..Len(k) : lowerChar(text[i + j]) = k[j]

\* C13: determinePriority returns exactly one of critical, high, normal, low
\* and depends on the text alone: critical whenever the text contains a
\* critical keyword (as a substring, whatever the case of its letters) even
\* if it also contains other keywords, otherwise high if it contains a high
\* keyword, otherwise normal if it contains a normal keyword, otherwise low.
C13_PriorityPrecedence ==
    \A p \in Procs : (pc[p] = "done" /\ rq[p].handler = "priority") =>
        LET text == rq[p].input
            out == rq[p].output
        IN  /\ out \in {"critical", "high", "normal", "low"}
            /\ out = determinePriority(text)
            /\ out = (IF Mentions(text, criticalKeywords) THEN "critical"
                      ELSE IF Mentions(text, highKeywords) THEN "high"
                      ELSE IF Mentions(text, normalKeywords) THEN "normal"
                      ELSE "low")

\* A text with a critical keyword spelled in upper and lower case, followed
\* by a normal keyword, was classified critical.
C13_Witness ==
    \E p \in Procs :
        /\ pc[p] = "done"
        /\ rq[p].handler = "priority"
        /\ rq[p].input = <<"S", "O", "s", "f", "o", "o", "d", " ">>
        /\ rq[p].output = "critical"

(***************************************************************************)
(* Properties of the event emitter.                                        *)
(***************************************************************************)
Connected == {s \in Sockets : sockets[s].connected}
Joined(d) == {s \in Sockets : sockets[s].connected /\ Room(d) \in sockets[s].rooms}
Emits(p) == Len(rq'[p].emitted) = Len(rq[p].emitted) + 1
LastTo(p) == rq'[p].delivered[Len(rq'[p].delivered)]
LastEvent(p) == rq'[p].emitted[Len(rq'[p].emitted)]

ReverseDone(p) == pc[p] = "done" /\ rq[p].handler = "reverse"
Unreachable(p) == rq[p].input.net = "down"
FallbackAnswer(p) ==
    /\ rq[p].status = 200
    /\ rq[p].body # Null
    /\ rq[p].body.source = "fallback"
    /\ rq[p].body.body = "Location at " \o rq[p].input.query

\* C17 (as stated): every reverse-geocode request with valid numeric lat and
\* lng made while no external geocoder is reachable is answered 200 with a
\* non-empty formatted address and the provenance marker fallback.
C17_AsStated ==
    \A p \in Procs : (ReverseDone(p) /\ rq[p].valid /\ Unreachable(p)) => FallbackAnswer(p)

\* C17 (amended): a reverse-geocode request with valid numeric lat and lng
\* made while no external geocoder is reachable is answered 200; when its
\* cache lookup is not a hit the answer carries the formatted address
\* "Location at <lat>, <lng>" and the provenance marker fallback, and nothing
\* is cached; when the lookup hits, the answer is the cached location with
\* the provenance of the geocoder that once produced it, and no geocoder is
\* called.
C17_FallbackOnMiss ==
    \A p \in Procs : (ReverseDone(p) /\ rq[p].valid /\ Unreachable(p)) =>
        /\ rq[p].status = 200
        /\ rq[p].cacheWrites = 0
        /\ IF rq[p].lookup = "hit"
           THEN /\ rq[p].body = cs[p].ret
                /\ rq[p].body.source \in {"google_maps", "nominatim"}
                /\ rq[p].primaryCalls = 0
           ELSE FallbackAnswer(p) /\ rq[p].primaryCalls = 1

\* With the geocoders unreachable and nothing cached, a request was answered
\* 200 with the fallback location.
C17_Witness ==
    \E p \in Procs :
        /\ ReverseDone(p)
        /\ rq[p].valid
        /\ Unreachable(p)
        /\ rq[p].lookup = "miss"
        /\ FallbackAnswer(p)

(***************************************************************************)
(* Properties of the proximity query.                                      *)
(***************************************************************************)
\* C12: every answered proximity query with centre C and radius R, computed
\* by the fallback or read from the cache, returns items whose reported
\* distance is at most R, in non-decreasing order of reported distance.
C12_WithinRadiusSorted ==
    \A p \in Procs :
        (pc[p] = "done" /\ rq[p].handler = "proximity" /\ rq[p].status = 200) =>
            LET items == rq[p].body.resources
            IN  /\ \A i \in 1..Len(items) :
                      items[i].distance_km <= parseFloat(rq[p].input.radius)
                /\ \A i, j \in 1..Len(items) :
                      i < j => items[i].distance_km <= items[j].distance_km

(***************************************************************************)
(* Properties of bulk image verification.                                  *)
(***************************************************************************)
BulkAnswered == bulk.state = "done"
BulkValid == bulk_status(bulk.input) = 0
BulkN == Len(bulk.input.image_urls)

\* C14: a bulk verification of N <= 10 valid URLs is answered with exactly N
\* results, the i-th for the i-th URL, each authentic, suspicious or fake,
\* with authentic + suspicious + fake = total_verified = N; a list of more
\* than 10 URLs is answered 400 and nothing is verified.
C14_BulkResults ==
    BulkAnswered =>
        /\ BulkValid =>
              /\ bulk.status = 200
              /\ Len(bulk.verifications) = BulkN
              /\ \A i \in 1..BulkN :
                    /\ bulk.verifications[i].image_url = bulk.input.image_urls[i]
                    /\ bulk.verifications[i].status \in Statuses
              /\ bulk.summary.total_verified = BulkN
              /\ bulk.summary.authentic + bulk.summary.suspicious + bulk.summary.fake = BulkN
        /\ (bulk.input.array /\ BulkN > MaxImages) =>
              /\ bulk.status = 400
              /\ bulk.verifications = <<>>
              /\ \A p \in Procs : pc[p] = "idle" /\ rq[p] = IdleReq

\* Two URLs were verified, one of them fake, and the summary counts both.
C14_Witness ==
    /\ BulkAnswered
    /\ bulk.status = 200
    /\ BulkN = 2
    /\ bulk.summary.fake = 1
    /\ bulk.summary.authentic + bulk.summary.suspicious = 1

\* A callback met a failure: its cache lookup, its image download or its
\* model call failed.
SubFailed(p) ==
    \/ rq[p].lookup = "fault"
    \/ rq[p].storeOutcome = "throw"

\* C15: all callbacks of a bulk verification are started before the handler
\* awaits any of them; whatever subset of them meets a failing cache lookup,
\* image download or model call, and in whatever order they complete, every
\* callback completes and the request is answered, with 200 and only after
\* all of them have completed.
C15_AllStartedAllAwaited ==
    /\ [](bulk.state = "waiting" =>
            \A i \in 1..BulkN : pc[SubRequests[i]] \notin {"idle", "rejected", "handler_catch"})
    /\ []((BulkAnswered /\ BulkValid) =>
            /\ bulk.status = 200
            /\ \A i \in 1..BulkN : pc[SubRequests[i]] = "done")
    /\ (bulk.state = "waiting" ~> BulkAnswered)

\* A bulk verification of two URLs was answered 200 although the image
\* download of one callback had failed; the other completed with the model.
C15_Witness ==
    /\ BulkAnswered
    /\ bulk.status = 200
    /\ BulkN = 2
    /\ \E p, q \in Procs :
          /\ p # q
          /\ SubFailed(p)
          /\ ~SubFailed(q)
          /\ rq[q].output.source = "gemini_vision"

(***************************************************************************)
(* Properties of input validation.                                         *)
(***************************************************************************)
Rejected(p) == pc[p] = "done" /\ rq[p].status = 400

\* The request made no primary-store call, no cache read or write, no
\* external-service call and emitted no event.
NoEffect(p) ==
    /\ rq[p].lookup = "none"
    /\ rq[p].cacheWrites = 0
    /\ rq[p].primaryCalls = 0
    /\ rq[p].storeOutcome = "none"
    /\ rq[p].emitted = <<>>
    /\ cs[p] = IdleCall

SameKey(p, q) ==
    /\ p # q
    /\ rq[p].handler = "bulk_sub" /\ rq[q].handler = "bulk_sub"
    /\ rq[p].input = rq[q].input

Missed(p) == pc[p] = "done" /\ rq[p].lookup \in {"miss", "fault"}

\* C21: nothing excludes two requests for the same key from each other: when
\* both miss, both run the verification and both call cache.set; every
\* cache.set whose upsert succeeds leaves, under its key, exactly the row it
\* wrote, whatever was there, so the key's one row is that of the write that
\* completed last.
C21_LastWriteWins ==
    /\ [](\A p, q \in Procs :
            (SameKey(p, q) /\ Missed(p) /\ Missed(q)) =>
                /\ rq[p].cacheWrites = 1 /\ rq[q].cacheWrites = 1
                /\ rq[p].output # Null /\ rq[q].output # Null
                /\ env.gemini => (rq[p].storeOutcome # "none" /\ rq[q].storeOutcome # "none"))
    /\ [][\A p \in Procs :
            (pc[p] = "set_upsert" /\ pc'[p] # "set_upsert" /\ cs'[p].wout = "ok") =>
                /\ cache'[cs[p].key] = Row(cs[p].value, cs[p].expiresAt)
                /\ \A k \in CacheKeys \ {cs[p].key} : cache'[k] = cache[k]]_vars

\* Two callbacks for the same URL both missed, obtained different results and
\* both wrote them; the cache holds one of the two.
C21_Witness ==
    \E p, q \in Procs :
        /\ SameKey(p, q) /\ Missed(p) /\ Missed(q)
        /\ rq[p].cacheWrites = 1 /\ rq[q].cacheWrites = 1
        /\ cs[p].wout = "ok" /\ cs[q].wout = "ok"
        /\ rq[p].output # rq[q].output
        /\ cache[cs[q].key] # NoRow
        /\ cache[cs[q].key].value = rq[q].output

(***************************************************************************)
(* Properties of the list responses.                                       *)
(***************************************************************************)
ListHandlers == {"official_updates", "resources", "social_media"}
ListAnswered(p) ==
    pc[p] = "done" /\ rq[p].handler \in ListHandlers /\ rq[p].status = 200

\* The provenance flag of a response body: meta.source (resources.js:237,
\* part_006:252), or undefined when the body has none.
provenanceOf(body) ==
    IF "source" \in DOMAIN body THEN body.source
    ELSE IF "meta" \in DOMAIN body /\ "source" \in DOMAIN body.meta THEN body.meta.source
    ELSE Undefined

\* The response lists an item of the mock fixture.
ListsFixture(body) ==
    IF "data" \in DOMAIN body
    THEN \E i \in 1..Len(body.data) : body.data[i] \in {"1", "2", "3", "4", "5", "6"}
    ELSE Synthetic(body)

\* C22: every list response carries a data-source provenance flag, and the
\* flag says synthetic exactly when the payload was built from a mock fixture,
\* also when the payload is served from the cache.
C22_ProvenanceFlag ==
    \A p \in Procs : ListAnswered(p) =>
        /\ provenanceOf(rq[p].body) # Undefined
        /\ ListsFixture(rq[p].body) <=>
               provenanceOf(rq[p].body) \in {"mock_data", "mock_api", "mock_fallback"}

\* C28: a list response served from the cache satisfies the filters of the
\* request it answers (priority, since, limit): two requests that differ in
\* a parameter that changes the result never share a cache entry.
C28_CachedMatchesFilters ==
    \A p \in Procs :
        (ListAnswered(p) /\ rq[p].handler = "official_updates" /\ rq[p].hit) =>
            /\ Len(rq[p].body.data) <= parseInt(rq[p].input.limit)
            /\ \A i \in 1..Len(rq[p].body.data) :
                  /\ matchesPriority(rq[p].input, rq[p].body.data[i])
                  /\ matchesSince(rq[p].input, rq[p].body.data[i])

(***************************************************************************)
(* Properties of the failure handling of the fetch endpoints.              *)
(***************************************************************************)
\* C23: every valid request to a data-fetching endpoint is answered with
\* success and a payload, real or substitute, whatever fails in the cache
\* store, the database or the external services; stated for reverse
\* geocoding, where the payload is the location and its formatted address.
C23_SuccessWithPayload ==
    \A p \in Procs : (ReverseDone(p) /\ rq[p].valid) =>
        /\ rq[p].status = 200
        /\ rq[p].body # Null
        /\ rq[p].body.body # Undefined

(***************************************************************************)
(* Properties of forward geocoding.                                        *)
(***************************************************************************)
GeocodeAnswered(p) ==
    pc[p] = "done" /\ rq[p].handler = "geocode" /\ rq[p].status = 200

\* part_004:109, 130: the geocoders that are configured, in the order of
\* geocodeLocation.
ConfiguredGeocoders ==
    (IF env.google THEN <<"google_maps">> ELSE <<>>)
        \o (IF env.mapbox THEN <<"mapbox">> ELSE <<>>) \o <<"nominatim">>

\* C25: forward geocoding tries Google Maps, Mapbox and Nominatim in this
\* order, moving on when the previous one is not configured, fails (a thrown
\* error included) or has no result; the mock coordinates are answered only
\* after every configured geocoder has been tried.
C25_AllTriedBeforeMock ==
    \A p \in Procs : (GeocodeAnswered(p) /\ ~rq[p].hit) =>
        /\ \E n \in 1..Len(ConfiguredGeocoders) :
               rq[p].entry = SubSeq(ConfiguredGeocoders, 1, n)
        /\ rq[p].body.source = "mock" => rq[p].entry = ConfiguredGeocoders
        /\ rq[p].body.source # "mock" => rq[p].body.source = rq[p].entry[Len(rq[p].entry)]

(***************************************************************************)
(* Properties of the cache writes of the routes.                           *)
(***************************************************************************)
RouteAnswered(p) == pc[p] = "done" /\ rq[p].status = 200 /\ ~rq[p].hit

\* The request's result came from its primary source.
PrimarySuccess(p) ==
    CASE rq[p].handler = "resources" -> rq[p].payload.source = "supabase"
      [] rq[p].handler = "social_media" -> rq[p].payload.source = "twitter_api"
      [] rq[p].handler = "verify_image" -> rq[p].payload.source = "gemini_vision"
      [] rq[p].handler = "geocode" ->
              rq[p].payload.source \in {"google_maps", "mapbox", "nominatim"}
      [] rq[p].handler = "official_updates" -> rq[p].output # mockOfficialUpdates
      [] OTHER -> FALSE

\* The cache key of the request's result.
RequestKey(p) ==
    CASE rq[p].handler = "resources" -> <<"resources", rq[p].id>>
      [] rq[p].handler = "social_media" -> <<"social_media", rq[p].id>>
      [] rq[p].handler = "verify_image" -> <<"image_verification", rq[p].id>>
      [] rq[p].handler = "geocode" -> <<"geocoding", rq[p].output>>
      [] rq[p].handler = "official_updates" ->
              <<"official_updates", OfficialParams(rq[p].input.priority)>>

\* The TTL of each operation class, in seconds, as the specification lists
\* them.
ClassTTL(prefix) ==
    CASE prefix \in {"location_extraction", "geocoding", "reverse_geocoding"} -> 3600
      [] prefix = "resources" -> 600
      [] prefix = "social_media" -> 300
      [] prefix = "official_updates" -> 1800
      [] prefix = "image_verification" -> 86400

ResourcesDone(p) == pc[p] = "done" /\ rq[p].handler \in {"resources", "proximity"}

\* The query strings that are numbers.
IsNumber(s) == s \in {"0", "40.7831", "40.7061", "-73.9857", "-73.9969"}

\* C26: the resource list answers 400 exactly when lat or lng is supplied and
\* the pair is not two valid numbers; every pair of valid numbers, 0
\* included, is accepted and answered with the resources within the radius.
C26_InvalidCoordinates ==
    \A p \in Procs : ResourcesDone(p) =>
        LET lat == rq[p].input.lat
            lng == rq[p].input.lng
            supplied == lat # "" \/ lng # ""
            bothValid == IsNumber(lat) /\ IsNumber(lng)
        IN  /\ rq[p].status = 400 <=> (supplied /\ ~bothValid)
            /\ bothValid =>
                  /\ rq[p].status = 200
                  /\ \A i \in 1..Len(rq[p].body.resources) :
                        calculateDistance(rq[p].input.centre, rq[p].body.resources[i].id)
                            <= parseFloat(rq[p].input.radius)


\* C29: a proximity query leaves the module's fixture list as it was, so a
\* fallback answer depends on the request's own parameters only: a fallback
\* list asked for without coordinates carries no distance that was computed
\* for an earlier request.
C29_FixturesUnchanged ==
    /\ mockResources = [x \in FixtureIds |-> NoDistance]
    /\ \A p \in Procs :
          (ResourcesDone(p) /\ rq[p].handler = "resources" /\ rq[p].status = 200
              /\ rq[p].body.source = "mock_data") =>
             \A i \in 1..Len(rq[p].body.resources) :
                 rq[p].body.resources[i].distance_km = NoDistance

(***************************************************************************)
(* Properties of the eviction in get.                                      *)
(***************************************************************************)
\* C27: get(K) removes K's entry only if the entry that is in the table at
\* the moment of the removal is expired: whatever a concurrent set(K, V, ttl)
\* does in between, an unexpired entry is never deleted by a get.
C27_EvictsOnlyExpired ==
    [][\A p \in Procs :
          (pc[p] = "delete_db" /\ cs[p].nested /\ pc'[p] # "delete_db"
              /\ cache[cs[p].key] # NoRow /\ cache'[cs[p].key] = NoRow) =>
             isExpired(cache[cs[p].key].expires_at, clock)]_vars

(***************************************************************************)
(* Properties of the responses.                                            *)
(***************************************************************************)
InFlight(p) == pc[p] \notin {"idle", "done"}

====
